---- MODULE Spec2Model ----
(***************************************************************************)
(* The reactive data-binding core of flamingo.js (class Kiwi with its      *)
(* Observer, Template and EventEmitter) as a state machine.                *)
(*                                                                         *)
(* JavaScript runs one synchronous phase at a time: a phase starts with a  *)
(* call from the host (a public operation, a property write, a timer) and  *)
(* ends when the call stack is empty again.  The variable `stack` is the   *)
(* call stack of the current phase, `log` records what the current phase   *)
(* has done so far, starting with the call that opened it.                 *)
(***************************************************************************)
EXTENDS Integers, Sequences, FiniteSets, TLC

----------------------------------------------------------------------------
(* Bounds of the model *)

\* largest number written to a key
MaxVal == 1
\* registrations made through $watch in one behaviour
MaxWatchers == 1
\* longest template of the tokenizer's specification
MaxLen == 7
\* nested calls of observe the engine's call stack has room for
MaxDepth == 4
\* $nextTick timers pending when the host makes a call
MaxTimers == 1

----------------------------------------------------------------------------
(* Values *)

Num(n) == [t |-> "number", n |-> n]
NaN == [t |-> "NaN", n |-> 0]
Undefined == [t |-> "undefined", n |-> 0]
Null == [t |-> "null", n |-> 0]
EvalError == [t |-> "error", n |-> 0]
\* the function Object, which every plain object inherits as `constructor`
ObjectFunction == [t |-> "function", n |-> 0]

\* the i-th container of the heap, as a value
Ref(i) == [t |-> "object", n |-> i]
\* utils.isObject
isObject(v) == v.t = "object"

Numbers == {Num(n) : n \in 0..MaxVal}
\* the values the host writes
Values == Numbers \cup {NaN}

\* JavaScript's ===: NaN is not equal to itself
StrictEquals(x, y) == x = y /\ x # NaN

Keys == {"a", "b"}

----------------------------------------------------------------------------
(* Strings are sequences of one-character strings *)

Digits == <<"0", "1", "2", "3", "4", "5", "6", "7", "8", "9">>

\* what Array.prototype.join makes of one element
Stringify(v) ==
    CASE v.t = "number" -> <<Digits[v.n + 1]>>
      [] v.t = "NaN" -> <<"N", "a", "N">>
      [] v.t = "object" ->
           <<"[", "o", "b", "j", "e", "c", "t", " ", "O", "b", "j", "e", "c", "t", "]">>
      [] v.t = "function" ->
           <<"f", "u", "n", "c", "t", "i", "o", "n", " ", "O", "b", "j", "e",
             "c", "t", "(", ")", " ", "{", " ", "[", "n", "a", "t", "i", "v",
             "e", " ", "c", "o", "d", "e", "]", " ", "}">>
      [] OTHER -> <<>>

RECURSIVE Join(_)
Join(parts) == IF parts = <<>> THEN <<>> ELSE Head(parts) \o Join(Tail(parts))

IsSpace(c) == c \in {" ", "\n"}
IsDot(c) == c # "\n"
IsIdentifier(c) == c \in {"a", "b", "c", "d"}

RECURSIVE Spaces(_, _)
\* the length of the run of whitespace of t that starts at position i
Spaces(t, i) == IF i <= Len(t) /\ IsSpace(t[i]) THEN 1 + Spaces(t, i + 1) ELSE 0

RECURSIVE trim(_)
trim(s) ==
    IF s = <<>> THEN s
    ELSE IF IsSpace(s[1]) THEN trim(Tail(s))
    ELSE IF IsSpace(s[Len(s)]) THEN trim(SubSeq(s, 1, Len(s) - 1))
    ELSE s

----------------------------------------------------------------------------
(* Template *)

delimiters == << <<"{", "{">>, <<"}", "}">> >>

Occurs(d, t, i) ==
    /\ i + Len(d) - 1 <= Len(t)
    /\ \A j \in 1..Len(d) : t[i + j - 1] = d[j]

RECURSIVE Lazy(_, _, _)
\* (.+?)\s*delimiters[1] from position q: the least number n of characters
\* the lazy group takes so that the rest matches, 0 when none does
Lazy(t, q, n) ==
    IF q + n - 1 > Len(t) \/ ~IsDot(t[q + n - 1]) THEN 0
    ELSE IF Occurs(delimiters[2], t, q + n + Spaces(t, q + n)) THEN n
    ELSE Lazy(t, q, n + 1)

RECURSIVE Greedy(_, _, _)
\* \s*(.+?)\s*delimiters[1] from position p: the greedy \s* first takes all
\* s blanks and gives them back one by one; -1 when nothing matches
Greedy(t, p, s) ==
    IF Lazy(t, p + s, 1) > 0 THEN s
    ELSE IF s = 0 THEN -1
    ELSE Greedy(t, p, s - 1)

\* the pattern matched at position i
exec_at(t, i) ==
    LET p == i + Len(delimiters[1])
        s == IF Occurs(delimiters[1], t, i) THEN Greedy(t, p, Spaces(t, p)) ELSE -1
        n == Lazy(t, p + s, 1)
        e == p + s + n
    IN  IF s < 0 THEN [found |-> FALSE, index |-> 0, group |-> <<>>, lastIndex |-> 0]
        ELSE [found |-> TRUE, index |-> i, group |-> SubSeq(t, p + s, e - 1),
              lastIndex |-> e + Spaces(t, e) + Len(delimiters[2])]

RECURSIVE exec(_, _)
\* pattern.exec(template) with pattern.lastIndex = lastIndex: the leftmost match
exec(t, lastIndex) ==
    IF lastIndex > Len(t) THEN exec_at(t, lastIndex)
    ELSE IF Occurs(delimiters[1], t, lastIndex) /\ exec_at(t, lastIndex).found
         THEN exec_at(t, lastIndex)
         ELSE exec(t, lastIndex + 1)

RECURSIVE tokens(_, _)
\* the tokens of template t from position lastIndex on
tokens(t, lastIndex) ==
    LET match == exec(t, lastIndex)
    IN  IF match.found
        THEN (IF match.index > lastIndex
              THEN <<[type |-> "text", value |-> SubSeq(t, lastIndex, match.index - 1)]>>
              ELSE <<>>)
             \o <<[type |-> "expression", value |-> trim(match.group)]>>
             \o tokens(t, match.lastIndex)
        ELSE IF lastIndex <= Len(t)
             THEN <<[type |-> "text", value |-> SubSeq(t, lastIndex, Len(t))]>>
             ELSE <<>>

\* what a plain object inherits from Object.prototype, by name
ObjectPrototype ==
    [name \in {<<"c", "o", "n", "s", "t", "r", "u", "c", "t", "o", "r">>} |->
        ObjectFunction]

\* new Function('data', 'with(data) { return <expr>; }')(data) for the
\* expressions of the model's templates: the empty expression returns
\* undefined; an identifier is looked up in data, own keys first and then
\* what data inherits, and is a ReferenceError when neither has it; anything
\* else fails (a SyntaxError as "a b", a TypeError as "a()")
Evaluate(expr, data) ==
    IF expr = <<>> THEN Undefined
    ELSE IF Len(expr) = 1 /\ IsIdentifier(expr[1])
         THEN (IF expr[1] \in DOMAIN data THEN data[expr[1]] ELSE EvalError)
         ELSE IF expr \in DOMAIN ObjectPrototype THEN ObjectPrototype[expr]
         ELSE EvalError

RenderToken(token, data) ==
    IF token.type = "text" THEN token.value
    ELSE LET value == Evaluate(token.value, data)
         IN  IF value = EvalError THEN <<>>
             ELSE IF value # Undefined THEN Stringify(value) ELSE <<>>

RECURSIVE renderUntilFailure(_, _)
\* a renderer that gives up at the first expression that fails
renderUntilFailure(toks, data) ==
    IF toks = <<>> THEN <<>>
    ELSE IF Head(toks).type = "expression" /\ Evaluate(Head(toks).value, data) = EvalError
         THEN <<>>
         ELSE RenderToken(Head(toks), data) \o renderUntilFailure(Tail(toks), data)

\* the function Object where a renderer is expected: what this.cache[name]
\* is for a name the cache object inherits from Object.prototype
ObjectRenderer == <<[type |-> "function", value |-> <<"O", "b", "j", "e", "c", "t">>]>>

\* this.cache[template] is truthy: the cache holds the template, or the
\* template is a name the cache object inherits
Hit(cache, t) == t \in DOMAIN cache \/ t \in DOMAIN ObjectPrototype

\* the renderer compile builds around its tokens, applied to data; the
\* function Object returns data itself, which as a string is
\* "[object Object]"
renderFn(toks, data) ==
    IF toks = ObjectRenderer
    THEN <<"[", "o", "b", "j", "e", "c", "t", " ", "O", "b", "j", "e", "c", "t", "]">>
    ELSE Join([i \in 1..Len(toks) |-> RenderToken(toks[i], data)])

\* typeof renderFn(data)
typeof(toks) == IF toks = ObjectRenderer THEN "object" ELSE "string"

\* Template.compile(template) with the cache as it is: the renderer (its
\* tokens), this.cache[template] when that is truthy
compile(cache, t) ==
    IF t \in DOMAIN cache THEN cache[t]
    ELSE IF t \in DOMAIN ObjectPrototype THEN ObjectRenderer
    ELSE tokens(t, 1)

\* how often Template.compile(template) scans the template for tokens
scans(cache, t) == IF Hit(cache, t) THEN 0 ELSE 1

\* a cache that holds the renderer of the last template only
CachedLast(cache, t) == [u \in {t} |-> tokens(t, 1)]

\* the cache after Template.compile(template)
Cached(cache, t) ==
    IF Hit(cache, t) THEN cache
    ELSE [u \in DOMAIN cache \cup {t} |-> IF u \in DOMAIN cache THEN cache[u] ELSE tokens(t, 1)]

\* Template.render(template, data) with the cache as it is
render(cache, t, data) == renderFn(compile(cache, t), data)

----------------------------------------------------------------------------
(* User code: what a watcher callback, a hook or a $nextTick callback does *)

\* returns `value` and does nothing else
Returns(v) == [do |-> "return", key |-> "a", value |-> v]
\* this[key] = value
Writes(k, v) == [do |-> "write", key |-> k, value |-> v]
\* this.$nextTick(function () {})
Defers == [do |-> "nextTick", key |-> "a", value |-> Undefined]
\* throw new Error()
Throws == [do |-> "throw", key |-> "a", value |-> Undefined]
\* this.$destroy()
Destroys == [do |-> "destroy", key |-> "a", value |-> Undefined]
\* if (this[key]) this[key][property] = value
WritesIn(k, property, v) == [do |-> "writeIn", key |-> k, value |-> v, property |-> property]
\* unwatch && unwatch(), for the function the id-th $watch returns
Unwatches(id) == [do |-> "unwatch", key |-> "a", value |-> [t |-> "number", n |-> id]]
\* this.$watch(key, function () {}), as long as the host may register
Watches(k) == [do |-> "watch", key |-> k, value |-> [t |-> "undefined", n |-> 0]]
\* no function at all (a hook left null, $nextTick() without a callback)
Missing == [do |-> "missing", key |-> "a", value |-> Undefined]

\* not a function: a hook given as a string
NotCallable == [do |-> "string", key |-> "a", value |-> Undefined]
\* utils.isFunction
isFunction(fn) == fn.do \notin {"missing", "string"}

\* the callbacks handed to $watch
WatchCallbacks == {Returns(Undefined), Writes("b", Num(1)), Throws}
\* the callbacks handed to $nextTick
TickCallbacks == {Missing, Returns(Num(1)), Writes("b", Num(1)), Throws}

\* the getter of a computed entry: function () { return this[of] * 2 }
Double(this, of) ==
    IF of \in DOMAIN this /\ this[of].t = "number" THEN Num(2 * this[of].n) ELSE NaN

\* the computed entry whose getter is function () { return {x: 1} }
Fresh == "{x: 1}"

\* getter.call(this) for the getter of a computed entry: an object that no
\* container holds (Ref(0)) for Fresh, and this[of] * 2 for any other
Getter(this, of) == IF of = Fresh THEN Ref(0) ELSE Double(this, of)

\* the options of a component: its view (element, template, computed), its
\* data, its watch table and its beforeUpdate and updated hooks
Options(view, d, watch, hooks) ==
    [element |-> view[1], template |-> view[2], computed |-> view[3], data |-> d,
     watch |-> watch, beforeUpdate |-> hooks[1], updated |-> hooks[2]]

\* "a:{{a}}"
Counter == <<TRUE, <<"a", ":", "{", "{", "a", "}", "}">>, <<>> >>
\* "{{ b}}{{d }}" with computed d = a * 2
Doubler ==
    <<TRUE, <<"{", "{", " ", "b", "}", "}", "{", "{", "d", " ", "}", "}">>,
      [k \in {"d"} |-> "a"]>>
\* a template without an element to render into
Unbound == <<FALSE, <<"a", ":", "{", "{", "a", "}", "}">>, <<>> >>

AB == [k \in {"a", "b"} |-> Num(0)]
A == [k \in {"a"} |-> Num(0)]
NoWatch == <<>>
Observers == <<[key |-> "a", cb |-> Returns(Undefined)],
               [key |-> "b", cb |-> Returns(Undefined)]>>
WatchA == <<[key |-> "a", cb |-> Writes("b", Num(1))]>>
WatchAB == <<[key |-> "a", cb |-> Writes("b", Num(1))],
             [key |-> "b", cb |-> Returns(Undefined)]>>
NoHooks == <<Missing, Missing>>

\* the components of the mutation API's specification
Components ==
    { Options(Doubler, AB, Observers, NoHooks),
      Options(Counter, A, NoWatch, NoHooks),
      Options(Counter, AB, WatchA, NoHooks),
      Options(Counter, AB, NoWatch, <<Throws, Missing>>),
      Options(Counter, AB, WatchAB, NoHooks),
      Options(Doubler, AB, NoWatch, <<Returns(Undefined), Writes("b", Num(1))>>),
      Options(Doubler, A, WatchA, <<Returns(Undefined), Returns(Undefined)>>),
      Options(Unbound, AB, WatchA, <<Writes("b", Num(1)), Returns(Undefined)>>) }

\* the components whose watchers and hooks write: the watchers of a and b
\* write each other's key, a watcher writes its own key and beforeUpdate
\* writes too, the updated hook writes the key the template shows
NestComponents ==
    { Options(Doubler, AB, <<[key |-> "a", cb |-> Writes("b", Num(1))],
                             [key |-> "b", cb |-> Writes("a", Num(1))]>>, NoHooks),
      Options(Doubler, AB, <<[key |-> "b", cb |-> Writes("b", Num(1))]>>,
              <<Writes("b", Num(1)), Returns(Undefined)>>),
      Options(Counter, AB, NoWatch, <<Returns(Undefined), Writes("a", Num(1))>>) }

\* the components that are destroyed: a watcher of a destroys the component
\* it watches
DestroyComponents ==
    { Options(Counter, AB, <<[key |-> "a", cb |-> Destroys]>>, NoHooks),
      Options(Doubler, AB, Observers, <<Returns(Undefined), Returns(Undefined)>>) }

\* the components of the $nextTick specification: $nextTick is called in a
\* watcher, in the beforeUpdate hook, in the updated hook
TickComponents ==
    { Options(Counter, AB, <<[key |-> "a", cb |-> Defers]>>, NoHooks),
      Options(Counter, AB, NoWatch, <<Defers, Missing>>),
      Options(Doubler, AB, WatchA, <<Missing, Defers>>) }

----------------------------------------------------------------------------
(* State *)

VARIABLES
    options,     \* this.options
    destroyed,   \* $destroy has cleared this.options, this.data, this.el, ...
    data,        \* the data container, observed
    heap,        \* the other containers: their properties, and which of
                 \* them Observer.observe has given an accessor
    events,      \* this._events['dataChange']: registration ids, in order
    regs,        \* every watcher closure $watch has made: its key and callback
    el,          \* this.el is an element
    innerHTML,   \* the content of the render target
    cache,       \* this.templateEngine.cache: template -> tokens of its renderer
    timers,      \* the host's queue of setTimeout(..., 0) callbacks
    promise,     \* the promise of the $nextTick timer that fired last
    stack,       \* the call stack of the running synchronous phase
    log,         \* what the running (or last) synchronous phase did
    thrown       \* some phase has ended with an uncaught exception

vars == <<options, destroyed, data, heap, events, regs, el, innerHTML, cache, timers, promise,
          stack, log, thrown>>

\* a container as the host makes it: no property has an accessor
Plain(properties) == [of |-> properties, observed |-> {}]

\* Object.keys(obj), in the order the host has added the properties
KeyOrder == <<"a", "b", "x">>
OwnKeys(obj) == SelectSeq(KeyOrder, LAMBDA k : k \in DOMAIN obj)

\* observe has returned, or the engine's stack has overflowed
Observed(h) == [heap |-> h, overflow |-> FALSE]
Overflowed(h) == [heap |-> h, overflow |-> TRUE]

RECURSIVE observe(_, _, _)
RECURSIVE observeKeys(_, _, _, _)

RECURSIVE observeKeysShallow(_, _, _, _)
\* a forEach that gives every property its accessor and observes no value
observeKeysShallow(h, i, keys, depth) ==
    IF keys = <<>> THEN Observed(h)
    ELSE observeKeysShallow([h EXCEPT ![i].observed = @ \cup {Head(keys)}],
                            i, Tail(keys), depth)

RECURSIVE observeKeysOnce(_, _, _, _)
\* a forEach that takes the accessor off a property that has one
observeKeysOnce(h, i, keys, depth) ==
    IF keys = <<>> THEN Observed(h)
    ELSE LET inner == observe(h, h[i].of[Head(keys)], depth + 1)
         IN  IF inner.overflow THEN inner
             ELSE observeKeysOnce(
                      [inner.heap EXCEPT ![i].observed =
                          IF Head(keys) \in @ THEN @ \ {Head(keys)}
                          ELSE @ \cup {Head(keys)}],
                      i, Tail(keys), depth)

\* Object.keys(obj).forEach of observe for container i, the keys still to
\* visit: the value is observed first, then the property gets its accessor
\* (one that is there already is replaced)
observeKeys(h, i, keys, depth) ==
    IF keys = <<>> THEN Observed(h)
    ELSE LET inner == observe(h, h[i].of[Head(keys)], depth + 1)
         IN  IF inner.overflow THEN inner
             ELSE observeKeys([inner.heap EXCEPT ![i].observed = @ \cup {Head(keys)}],
                              i, Tail(keys), depth)

\* Observer.observe(v), the depth-th call on the stack: a RangeError when
\* the stack has no room for it
observe(h, v, depth) ==
    IF ~isObject(v) THEN Observed(h)
    ELSE IF depth > MaxDepth THEN Overflowed(h)
    ELSE observeKeys(h, v.n, OwnKeys(h[v.n].of), depth)

RECURSIVE observeEach(_, _, _)
\* the forEach of observe for the data container
observeEach(h, values, depth) ==
    IF values = <<>> THEN Observed(h)
    ELSE LET inner == observe(h, Head(values), depth + 1)
         IN  IF inner.overflow THEN inner
             ELSE observeEach(inner.heap, Tail(values), depth)

\* Observer.observe(this.data)
observeData(h, d) ==
    observeEach(h, [i \in 1..Len(OwnKeys(d)) |-> d[OwnKeys(d)[i]]], 1)

\* a computed table filled once, when the component is constructed
extendOnce(d, computed) ==
    [k \in DOMAIN d \cup DOMAIN computed |->
        IF k \in DOMAIN computed THEN Double(options.data, computed[k]) ELSE d[k]]

\* the keys utils.extend finds an object under in both of its sources, so
\* that it merges the second into the first and assigns nothing
Merges(d, computed) ==
    {k \in DOMAIN d \cap DOMAIN computed : isObject(d[k]) /\ isObject(Getter(d, computed[k]))}

\* utils.extend({}, this.data, this.computed), the object it returns: the
\* value of this.computed under every key of it, but for a key of Merges,
\* which keeps the container this.data holds
extend(d, computed) ==
    [k \in DOMAIN d \cup DOMAIN computed |->
        IF k \in DOMAIN computed \ Merges(d, computed)
        THEN Getter(d, computed[k]) ELSE d[k]]

\* the options' copy of the data, which the constructor never writes again
optionsData == extend(options.data, options.computed)

templateData == extend(data, options.computed)

Idle == stack = <<>>

\* the state a constructor call with one of `components` leaves
Constructed(components) ==
    /\ options \in components
    /\ destroyed = FALSE
    /\ data = options.data
    /\ heap = IF "heap" \in DOMAIN options
              THEN observeData(options.heap, options.data).heap
              ELSE <<>>
    /\ regs = options.watch
    /\ events = [i \in 1..Len(options.watch) |-> i]
    /\ el = options.element
    /\ IF options.template # <<>> /\ options.element
       THEN /\ innerHTML = render(<<>>, options.template,
                                  extend(options.data, options.computed))
            /\ cache = Cached(<<>>, options.template)
       ELSE /\ innerHTML = <<>>
            /\ cache = <<>>
    /\ timers = <<>>
    /\ promise = [state |-> "none", value |-> Undefined]
    /\ stack = <<>>
    /\ log = <<>>
    /\ thrown = FALSE

----------------------------------------------------------------------------
(* Calls made while a phase runs.  A call takes the context c it is made   *)
(* in (the data, the timers, the stack it returns to, the log so far) and  *)
(* gives the context it leaves.                                            *)

Context(stk, lg) ==
    [data |-> data, heap |-> heap, timers |-> timers, stack |-> stk, log |-> lg, thrown |-> thrown]

Apply(c) ==
    /\ data' = c.data
    /\ heap' = c.heap
    /\ timers' = c.timers
    /\ stack' = c.stack
    /\ log' = c.log
    /\ thrown' = c.thrown

Logged(c, event) == [c EXCEPT !.log = Append(@, event)]

\* an exception that is caught where it is thrown
ThrowCaught(c) == Logged(c, [e |-> "throw"])

\* an exception nobody catches unwinds the whole stack
Throw(c) == [Logged(c, [e |-> "throw"]) EXCEPT !.stack = <<>>, !.thrown = TRUE]

\* the TypeError of reading a property of null (this.data, this.options
\* after $destroy), which nobody catches either
TypeError == [e |-> "throw", error |-> "TypeError"]
Fault(c) == [Logged(c, TypeError) EXCEPT !.stack = <<>>, !.thrown = TRUE]

\* the RangeError of a call stack that has no room left, which nobody
\* catches
RangeError == [e |-> "throw", error |-> "RangeError"]
Overflow(c) == [Logged(c, RangeError) EXCEPT !.stack = <<>>, !.thrown = TRUE]

\* an accessor of the instance that stores and tells nobody
ProxySilent(c, k, v) ==
    IF k \notin DOMAIN c.data THEN c
    ELSE IF destroyed THEN Fault(c)
    ELSE [c EXCEPT !.data[k] = v]

\* a setter that stores the new value before it reads the old one
SetterAfterStore(c, k, v) ==
    IF StrictEquals(c.data[k], v) THEN c
    ELSE [c EXCEPT
            !.data[k] = v,
            !.stack = Append(@, [kind |-> "callback", key |-> k, newValue |-> v,
                                 oldValue |-> v, listeners |-> events,
                                 i |-> 1, called |-> <<>>, pc |-> "emit"]),
            !.log = Append(@, [e |-> "dataChange", key |-> k, newValue |-> v,
                               oldValue |-> v])]

\* a setter whose change callback is queued behind the running caller
SetterQueued(c, k, v) ==
    IF StrictEquals(c.data[k], v) THEN c
    ELSE LET frame == [kind |-> "callback", key |-> k, newValue |-> v,
                       oldValue |-> c.data[k], listeners |-> events,
                       i |-> 1, called |-> <<>>, pc |-> "emit"]
         IN  [c EXCEPT
                !.data[k] = v,
                !.stack = IF @ = <<>> THEN <<frame>>
                          ELSE SubSeq(@, 1, Len(@) - 1) \o <<frame, @[Len(@)]>>,
                !.log = Append(@, [e |-> "dataChange", key |-> k, newValue |-> v,
                                   oldValue |-> c.data[k]])]

\* the setter Observer.observe installs on data[k], up to the first
\* statement of the observer callback, the emit
Setter(c, k, v) ==
    IF StrictEquals(c.data[k], v) THEN c
    ELSE LET seen == observe(c.heap, v, 1)
         IN  IF seen.overflow
             THEN Overflow([c EXCEPT !.data[k] = v, !.heap = seen.heap])
             ELSE [c EXCEPT
                     !.data[k] = v,
                     !.heap = seen.heap,
                     !.stack = Append(@, [kind |-> "callback", key |-> k, newValue |-> v,
                                          oldValue |-> c.data[k], listeners |-> events,
                                          i |-> 1, called |-> <<>>, pc |-> "emit"]),
                     !.log = Append(@, [e |-> "dataChange", key |-> k, newValue |-> v,
                                        oldValue |-> c.data[k]])]

\* container[k] = v for the i-th container of the heap: a plain property
\* is stored; a property with an accessor runs the setter Observer.observe
\* has installed, which calls the observer callback with the property's
\* name
Store(c, i, k, v) ==
    IF k \notin c.heap[i].observed
    THEN [c EXCEPT !.heap[i].of = (k :> v) @@ @]
    ELSE IF StrictEquals(c.heap[i].of[k], v) THEN c
    ELSE LET stored == [c EXCEPT !.heap[i].of[k] = v]
             seen == observe(stored.heap, v, 1)
         IN  IF seen.overflow
             THEN Overflow([stored EXCEPT !.heap = seen.heap])
             ELSE [stored EXCEPT
                     !.heap = seen.heap,
                     !.stack = Append(@, [kind |-> "callback", key |-> k, newValue |-> v,
                                          oldValue |-> c.heap[i].of[k],
                                          listeners |-> events,
                                          i |-> 1, called |-> <<>>, pc |-> "emit",
                                          container |-> i]),
                     !.log = Append(@, [e |-> "dataChange", key |-> k, newValue |-> v,
                                        oldValue |-> c.heap[i].of[k]])]

\* this[k] = v: the accessor _setupReactivity and $set define on the
\* instance for the keys of data (any other key is a plain property)
Proxy(c, k, v) ==
    IF k \notin DOMAIN c.data THEN c
    ELSE IF destroyed THEN Fault(c)
    ELSE Setter(c, k, v)

\* a timer that jumps the host's queue
DeferFirst(c, cb) ==
    [Logged(c, [e |-> "$nextTick", cb |-> cb]) EXCEPT !.timers = <<cb>> \o @]

\* this.$nextTick(cb)
Defer(c, cb) ==
    [Logged(c, [e |-> "$nextTick", cb |-> cb]) EXCEPT !.timers = Append(@, cb)]

\* a callback of the user runs
Call(c, cb) ==
    CASE cb.do = "write" -> Proxy(c, cb.key, cb.value)
      [] cb.do = "writeIn" ->
           IF cb.key \in DOMAIN c.data /\ isObject(c.data[cb.key])
           THEN Store(c, c.data[cb.key].n, cb.property, cb.value)
           ELSE c
      [] cb.do = "nextTick" -> Defer(c, Returns(Undefined))
      [] cb.do = "throw" -> Throw(c)
      [] OTHER -> c

\* a $set that writes known keys only
SetKnown(c, k, v) ==
    IF destroyed THEN Fault(c)
    ELSE IF k \notin DOMAIN c.data THEN c
    ELSE Setter(c, k, v)

\* a $set that notifies of the key it adds
SetNotifying(c, k, v) ==
    IF destroyed THEN Fault(c)
    ELSE IF k \notin DOMAIN c.data
    THEN Setter([c EXCEPT !.data = [j \in DOMAIN c.data \cup {k} |->
                                       IF j = k THEN Undefined ELSE c.data[j]]],
                k, v)
    ELSE Setter(c, k, v)

\* $set(k, v) for one key: when this.data[k] === undefined the value is
\* assigned and the container observed again, and for a key the container
\* holds with the value undefined that assignment runs the key's setter
\* (the observe that follows the dispatch finds every accessor in place)
SetKey(c, k, v) ==
    IF destroyed THEN Fault(c)
    ELSE IF k \notin DOMAIN c.data
    THEN LET added == [j \in DOMAIN c.data \cup {k} |-> IF j = k THEN v ELSE c.data[j]]
             seen == observeData(c.heap, added)
         IN  IF seen.overflow
             THEN Overflow([c EXCEPT !.data = added, !.heap = seen.heap])
             ELSE [c EXCEPT !.data = added, !.heap = seen.heap]
    ELSE IF c.data[k] = Undefined
    THEN LET written == Setter(c, k, v)
         IN  IF written.log[Len(written.log)] = RangeError THEN written
             ELSE [written EXCEPT !.heap = observeData(@, written.data).heap]
    ELSE Setter(c, k, v)

\* an each that visits the entries of the mapping last to first
SetEachBackwards(c, pairs) ==
    IF pairs = <<>> THEN c
    ELSE SetKey(IF Len(pairs) > 1
                THEN [c EXCEPT !.stack = Append(@, [kind |-> "each",
                                                    pairs |-> SubSeq(pairs, 1, Len(pairs) - 1)])]
                ELSE c,
                pairs[Len(pairs)][1], pairs[Len(pairs)][2])

\* utils.each(mapping, (val, k) => this.$set(k, val)): the first of the
\* entries left, the others when it has returned
SetEach(c, pairs) ==
    IF pairs = <<>> THEN c
    ELSE SetKey(IF Len(pairs) > 1
                THEN [c EXCEPT !.stack = Append(@, [kind |-> "each", pairs |-> Tail(pairs)])]
                ELSE c,
                pairs[1][1], pairs[1][2])

----------------------------------------------------------------------------
(* The steps of a running phase: the frame on top of the stack moves on *)

Top == stack[Len(stack)]
Rest == SubSeq(stack, 1, Len(stack) - 1)
\* the running phase with its top frame replaced
Replaced(frame) == Context(Append(Rest, frame), log)
\* the running phase with its top frame returned
Returned == Context(Rest, log)

\* every listener left, whatever key its watcher is for
Listening(f) == f.i..Len(f.listeners)

\* the listeners emit's forEach has still to call whose watcher is for the
\* changed key (the watchers for other keys return at once)
Matching(f) ==
    {j \in f.i..Len(f.listeners) : regs[f.listeners[j]].key = f.key}

\* the listener forEach calls next
NextListener(f) == CHOOSE m \in Matching(f) : \A n \in Matching(f) : m <= n

\* EventEmitter.emit calls the next watcher for the changed key, which calls
\* its callback with (newValue, oldValue)
Emit ==
    /\ stack # <<>>
    /\ Top.kind = "callback" /\ Top.pc = "emit"
    /\ Matching(Top) # {}
    /\ regs[Top.listeners[NextListener(Top)]].cb.do \notin {"destroy", "unwatch", "watch"}
    /\ LET j == NextListener(Top)
           call == [id |-> Top.listeners[j], newValue |-> Top.newValue,
                    oldValue |-> Top.oldValue]
       IN  Apply(Call(Logged(Replaced([Top EXCEPT !.i = j + 1,
                                                  !.called = Append(@, call)]),
                             [e |-> "watcher"] @@ call),
                      regs[call.id].cb))
    /\ UNCHANGED <<options, destroyed, events, regs, el, innerHTML, cache, promise>>

\* EventEmitter.emit calls the next watcher for the changed key, whose
\* callback calls this.$destroy(): forEach goes on over the listeners it
\* started with
EmitDestroy ==
    /\ stack # <<>>
    /\ Top.kind = "callback" /\ Top.pc = "emit"
    /\ Matching(Top) # {}
    /\ regs[Top.listeners[NextListener(Top)]].cb = Destroys
    /\ LET j == NextListener(Top)
           call == [id |-> Top.listeners[j], newValue |-> Top.newValue,
                    oldValue |-> Top.oldValue]
           called == Logged(Logged(Replaced([Top EXCEPT !.i = j + 1,
                                                        !.called = Append(@, call)]),
                                   [e |-> "watcher"] @@ call),
                            [e |-> "$destroy"])
       IN  IF destroyed
           THEN Apply(Fault(called)) /\ UNCHANGED <<events, destroyed, el>>
           ELSE /\ Apply(called)
                /\ events' = <<>>
                /\ destroyed' = TRUE
                /\ el' = FALSE
    /\ UNCHANGED <<options, regs, innerHTML, cache, promise>>

\* EventEmitter.emit calls the next watcher for the changed key, whose
\* callback calls the function a $watch returned: off puts a filtered copy
\* in the place of the listeners, and forEach goes on over the array it
\* started with
EmitUnwatch ==
    /\ stack # <<>>
    /\ Top.kind = "callback" /\ Top.pc = "emit"
    /\ Matching(Top) # {}
    /\ regs[Top.listeners[NextListener(Top)]].cb.do = "unwatch"
    /\ LET j == NextListener(Top)
           call == [id |-> Top.listeners[j], newValue |-> Top.newValue,
                    oldValue |-> Top.oldValue]
           called == Logged(Replaced([Top EXCEPT !.i = j + 1,
                                                 !.called = Append(@, call)]),
                            [e |-> "watcher"] @@ call)
           id == regs[call.id].cb.value.n
       IN  IF id \in (Len(options.watch) + 1)..Len(regs)
           THEN /\ Apply(Logged(called, [e |-> "unwatch", id |-> id]))
                /\ events' = SelectSeq(events, LAMBDA l : l # id)
           ELSE /\ Apply(called)
                /\ UNCHANGED events
    /\ UNCHANGED <<options, destroyed, regs, el, innerHTML, cache, promise>>

\* EventEmitter.emit calls the next watcher for the changed key, whose
\* callback calls this.$watch: on pushes the new watcher onto the listeners,
\* beyond the length forEach started with
EmitWatch ==
    /\ stack # <<>>
    /\ Top.kind = "callback" /\ Top.pc = "emit"
    /\ Matching(Top) # {}
    /\ regs[Top.listeners[NextListener(Top)]].cb.do = "watch"
    /\ LET j == NextListener(Top)
           call == [id |-> Top.listeners[j], newValue |-> Top.newValue,
                    oldValue |-> Top.oldValue]
           called == Logged(Replaced([Top EXCEPT !.i = j + 1,
                                                 !.called = Append(@, call)]),
                            [e |-> "watcher"] @@ call)
       IN  IF Len(regs) < Len(options.watch) + MaxWatchers
           THEN /\ Apply(Logged(called, [e |-> "$watch", id |-> Len(regs) + 1]))
                /\ regs' = Append(regs, [key |-> regs[call.id].cb.key,
                                         cb |-> Returns(Undefined)])
                /\ events' = Append(events, Len(regs) + 1)
           ELSE /\ Apply(called)
                /\ UNCHANGED <<events, regs>>
    /\ UNCHANGED <<options, destroyed, el, innerHTML, cache, promise>>

\* an observer callback that calls no hook
HookSkipped(c, name, hook) == IF destroyed THEN Fault(c) ELSE c

\* a lifecycle hook of the observer callback, called in context c
Hook(c, name, hook) ==
    IF destroyed THEN Fault(c)
    ELSE IF hook = Missing THEN c
    ELSE Call(Logged(c, [e |-> name, key |-> Top.key]), hook)

\* emit has returned: the beforeUpdate hook
BeforeUpdate ==
    /\ stack # <<>>
    /\ Top.kind = "callback" /\ Top.pc = "emit"
    /\ Matching(Top) = {}
    /\ Apply(Hook(Replaced([Top EXCEPT !.pc = "render"]), "beforeUpdate",
                  options.beforeUpdate))
    /\ UNCHANGED <<options, destroyed, events, regs, el, innerHTML, cache, promise>>

\* for (let key in source) over the computed table, in the order the
\* options list its entries
computedKeys(computed) == SelectSeq(<<"a", "b", "d">>, LAMBDA k : k \in DOMAIN computed)

\* _renderTemplate has called utils.extend, which has copied this.data to
\* its target and is about to visit the i-th key of this.computed
Extending(c) ==
    [c EXCEPT !.stack = Append(@, [kind |-> "extend", target |-> c.data, i |-> 1])]

\* utils.extend at the next key of this.computed: when the getter's value
\* and the target's are objects, this.extend(target[key], source[key])
\* assigns the property x of the getter's object to the container the
\* target shares with this.data, and else target[key] = source[key]; after
\* the last key _renderTemplate renders the target and shows the result
Extend ==
    /\ stack # <<>>
    /\ Top.kind = "extend"
    /\ IF destroyed
       THEN Apply(Fault(Returned)) /\ UNCHANGED <<innerHTML, cache>>
       ELSE IF Top.i > Len(computedKeys(options.computed))
       THEN LET html == render(cache, options.template, Top.target)
            IN  /\ innerHTML' = html
                /\ cache' = Cached(cache, options.template)
                /\ Apply(Logged(Returned, [e |-> "render", html |-> html]))
       ELSE LET k == computedKeys(options.computed)[Top.i]
                v == Getter(data, options.computed[k])
                next == [Top EXCEPT !.i = @ + 1]
            IN  /\ Apply(IF isObject(v) /\ k \in DOMAIN Top.target /\ isObject(Top.target[k])
                         THEN Store(Replaced(next), Top.target[k].n, "x", Num(1))
                         ELSE Replaced([next EXCEPT
                                          !.target = [j \in DOMAIN @ \cup {k} |->
                                                        IF j = k THEN v ELSE @[j]]]))
                /\ UNCHANGED <<innerHTML, cache>>
    /\ UNCHANGED <<options, destroyed, events, regs, el, promise>>

\* the re-render of the observer callback: _renderTemplate, which merges
\* no key, or calls a utils.extend that does
Render ==
    /\ stack # <<>>
    /\ Top.kind = "callback" /\ Top.pc = "render"
    /\ IF destroyed
       THEN Apply(Fault(Returned)) /\ UNCHANGED <<innerHTML, cache>>
       ELSE IF options.template # <<>> /\ el /\ Merges(data, options.computed) # {}
       THEN /\ Apply(Extending(Replaced([Top EXCEPT !.pc = "updated"])))
            /\ UNCHANGED <<innerHTML, cache>>
       ELSE IF options.template # <<>> /\ el
       THEN LET html == render(cache, options.template, templateData)
            IN  /\ innerHTML' = html
                /\ cache' = Cached(cache, options.template)
                /\ Apply(Logged(Replaced([Top EXCEPT !.pc = "updated"]),
                                [e |-> "render", html |-> html]))
       ELSE /\ Apply(Replaced([Top EXCEPT !.pc = "updated"]))
            /\ UNCHANGED <<innerHTML, cache>>
    /\ UNCHANGED <<options, destroyed, events, regs, el, promise>>

\* the updated hook, after which the observer callback and the setter return
Updated ==
    /\ stack # <<>>
    /\ Top.kind = "callback" /\ Top.pc = "updated"
    /\ Apply(Hook(Returned, "updated", options.updated))
    /\ UNCHANGED <<options, destroyed, events, regs, el, innerHTML, cache, promise>>

\* $set(mapping) goes on with its next entry
Each ==
    /\ stack # <<>>
    /\ Top.kind = "each"
    /\ Apply(SetEach(Returned, Top.pairs))
    /\ UNCHANGED <<options, destroyed, events, regs, el, innerHTML, cache, promise>>

\* what callback ? callback.call(this) : null evaluates to when the
\* callback returns
Result(cb) ==
    IF cb = Missing THEN Null
    ELSE IF cb.do = "return" THEN cb.value
    ELSE Undefined

\* the arrow function $nextTick handed to setTimeout calls the callback
Callback ==
    /\ stack # <<>>
    /\ Top.kind = "timeout" /\ Top.pc = "call"
    /\ Apply(Call(Replaced([Top EXCEPT !.pc = "resolve", !.result = Result(Top.cb)]),
                  Top.cb))
    /\ UNCHANGED <<options, destroyed, events, regs, el, innerHTML, cache, promise>>

\* the $nextTick callback has returned: resolve(result)
Resolve ==
    /\ stack # <<>>
    /\ Top.kind = "timeout" /\ Top.pc = "resolve"
    /\ promise' = [state |-> "resolved", value |-> Top.result]
    /\ Apply(Returned)
    /\ UNCHANGED <<options, destroyed, events, regs, el, innerHTML, cache>>

----------------------------------------------------------------------------
(* The constructor, statement by statement *)

\* a constructor that wires the component before it calls created
constructorSetupFirst == <<"setup", "created", "beforeMount", "render", "mounted">>

\* the statements of the constructor after its fields are initialized: the
\* created hook, the four setup calls (_bindMethods, _setupComputed,
\* _setupReactivity, _setupWatchers), the beforeMount hook, the first render,
\* the mounted hook
constructor == <<"created", "setup", "beforeMount", "render", "mounted">>

\* the running phase with the constructor's current statement done
After ==
    IF Top.pc < Len(constructor)
    THEN Replaced([Top EXCEPT !.pc = @ + 1])
    ELSE Returned

\* if (utils.isFunction(this.options[name])) this.options[name].call(this)
ConstructHook(name) ==
    /\ stack # <<>>
    /\ Top.kind = "constructor" /\ constructor[Top.pc] = name
    /\ Apply(IF isFunction(options[name])
             THEN Call(Logged(After, [e |-> name]), options[name])
             ELSE After)
    /\ UNCHANGED <<options, destroyed, events, regs, el, innerHTML, cache, promise>>

Created == ConstructHook("created")

\* _bindMethods, _setupComputed, _setupReactivity (the data is copied and
\* observed, its keys proxied), _setupWatchers ($watch for each entry of
\* the watch table): no code of the user runs
Setup ==
    /\ stack # <<>>
    /\ Top.kind = "constructor" /\ constructor[Top.pc] = "setup"
    /\ data' = options.data
    /\ heap' = observeData(heap, options.data).heap
    /\ regs' = options.watch
    /\ events' = [i \in 1..Len(options.watch) |-> i]
    /\ stack' = After.stack
    /\ log' = Append(log, [e |-> "setup"])
    /\ UNCHANGED <<options, destroyed, el, innerHTML, cache, timers, promise, thrown>>

BeforeMount == ConstructHook("beforeMount")

\* if (this.options.template && this.el) this._renderTemplate()
Mount ==
    /\ stack # <<>>
    /\ Top.kind = "constructor" /\ constructor[Top.pc] = "render"
    /\ IF options.template # <<>> /\ el /\ Merges(data, options.computed) # {}
       THEN /\ Apply(Extending(After))
            /\ UNCHANGED <<innerHTML, cache>>
       ELSE IF options.template # <<>> /\ el
       THEN LET html == render(cache, options.template, templateData)
            IN  /\ innerHTML' = html
                /\ cache' = Cached(cache, options.template)
                /\ Apply(Logged(After, [e |-> "render", html |-> html]))
       ELSE /\ Apply(After)
            /\ UNCHANGED <<innerHTML, cache>>
    /\ UNCHANGED <<options, destroyed, events, regs, el, promise>>

Mounted == ConstructHook("mounted")

----------------------------------------------------------------------------
(* $destroy, statement by statement, for components with teardown hooks *)

\* the statements of $destroy: the beforeDestroy hook, this._events = {},
\* the destroyed hook, the references set to null
teardown == <<"beforeDestroy", "off", "destroyed", "clear">>

\* the running phase with the current statement of $destroy done
Torn ==
    IF Top.pc < Len(teardown)
    THEN Replaced([Top EXCEPT !.pc = @ + 1])
    ELSE Returned

\* if (utils.isFunction(this.options[name])) this.options[name].call(this)
TeardownHook(name) ==
    /\ stack # <<>>
    /\ Top.kind = "$destroy" /\ teardown[Top.pc] = name
    /\ Apply(IF isFunction(options[name])
             THEN Call(Logged(Torn, [e |-> name]), options[name])
             ELSE Torn)
    /\ UNCHANGED <<options, destroyed, events, regs, el, innerHTML, cache, promise>>

BeforeDestroy == TeardownHook("beforeDestroy")

\* this._events = {}
Off ==
    /\ stack # <<>>
    /\ Top.kind = "$destroy" /\ teardown[Top.pc] = "off"
    /\ events' = <<>>
    /\ Apply(Logged(Torn, [e |-> "off"]))
    /\ UNCHANGED <<options, destroyed, regs, el, innerHTML, cache, promise>>

Destroyed == TeardownHook("destroyed")

\* this.el = null, ..., this.animation = null
Clear ==
    /\ stack # <<>>
    /\ Top.kind = "$destroy" /\ teardown[Top.pc] = "clear"
    /\ destroyed' = TRUE
    /\ el' = FALSE
    /\ Apply(Logged(Torn, [e |-> "clear"]))
    /\ UNCHANGED <<options, events, regs, innerHTML, cache, promise>>

----------------------------------------------------------------------------
(* The calls of the host, each opening a phase *)

\* a call to write v to key k, with what data holds for k when it is made
Write(op, k, v) ==
    [e |-> op, key |-> k, value |-> v, tracked |-> k \in DOMAIN data,
     stored |-> IF k \in DOMAIN data THEN data[k] ELSE Undefined]

\* component.$set(k, v)
Set(k, v) ==
    /\ Idle /\ Len(timers) <= MaxTimers
    /\ Apply(SetKey(Context(<<>>, <<Write("$set", k, v)>>), k, v))
    /\ UNCHANGED <<options, destroyed, events, regs, el, innerHTML, cache, promise>>

\* component.$set({a: va, b: vb})
SetMapping(va, vb) ==
    /\ Idle /\ Len(timers) <= MaxTimers
    /\ Apply(SetEach(Context(<<>>, <<[e |-> "$set{}", a |-> Write("$set", "a", va),
                                      b |-> Write("$set", "b", vb)]>>),
                     << <<"a", va>>, <<"b", vb>> >>))
    /\ UNCHANGED <<options, destroyed, events, regs, el, innerHTML, cache, promise>>

\* component[k] = v
Assign(k, v) ==
    /\ Idle /\ Len(timers) <= MaxTimers
    /\ Apply(Proxy(Context(<<>>, <<Write("assign", k, v)>>), k, v))
    /\ UNCHANGED <<options, destroyed, events, regs, el, innerHTML, cache, promise>>

RECURSIVE Closure(_, _)
\* the containers that can be reached from those of ids
Closure(h, ids) ==
    LET more == ids \cup {h[i].of[k].n : <<i, k>> \in
                             {<<i, k>> \in ids \X {"a", "b", "x"} :
                                 k \in DOMAIN h[i].of /\ isObject(h[i].of[k])}}
    IN  IF more = ids THEN ids ELSE Closure(h, more)

\* the containers the host reaches from the component's data
Reachable == Closure(heap, {data[k].n : k \in {j \in DOMAIN data : isObject(data[j])}})

\* container[k] = v, for a container the host has reached through the
\* component and a property it has
AssignIn(i, k, v) ==
    /\ Idle /\ Len(timers) <= MaxTimers
    /\ i \in Reachable /\ k \in DOMAIN heap[i].of
    /\ Apply(Store(Context(<<>>, <<[e |-> "assign.", container |-> i, key |-> k,
                                    value |-> v, stored |-> heap[i].of[k],
                                    tracked |-> k \in heap[i].observed]>>),
                   i, k, v))
    /\ UNCHANGED <<options, destroyed, events, regs, el, innerHTML, cache, promise>>

\* no key: $get() and $get('') alike, the test is `key ?`
NoKey == ""
\* the container itself, as a result
Container == [t |-> "container", n |-> 0]

\* $get(key) on container d: key ? d[key] : d
get(d, k) ==
    IF k = NoKey THEN Container
    ELSE IF k \in DOMAIN d THEN d[k] ELSE Undefined

\* component.$get(k): after $destroy this.data is null, which $get() returns
\* and $get(k) fails to read
Get(k) ==
    /\ Idle /\ Len(timers) <= MaxTimers
    /\ Apply(IF ~destroyed
             THEN Context(<<>>, <<[e |-> "$get", key |-> k, result |-> get(data, k)]>>)
             ELSE IF k = NoKey
             THEN Context(<<>>, <<[e |-> "$get", key |-> k, result |-> Null]>>)
             ELSE Fault(Context(<<>>, <<[e |-> "$get", key |-> k, result |-> Undefined]>>)))
    /\ UNCHANGED <<options, destroyed, events, regs, el, innerHTML, cache, promise>>

\* d[k] = v on a reference d to the data container the host has kept: the
\* setter of Observer.observe, without the component's proxy
DataWrite(k, v) ==
    /\ Idle /\ Len(timers) <= MaxTimers
    /\ k \in DOMAIN data
    /\ Apply(Setter(Context(<<>>, <<Write("data", k, v)>>), k, v))
    /\ UNCHANGED <<options, destroyed, events, regs, el, innerHTML, cache, promise>>

\* EventEmitter.on
on(listeners, id) == Append(listeners, id)

\* an off that compares what the watchers do, not which closure they are
offAlike(listeners, id) == SelectSeq(listeners, LAMBDA l : regs[l] # regs[id])

\* EventEmitter.off with a callback
off(listeners, id) == SelectSeq(listeners, LAMBDA l : l # id)

\* a $watch that the emitter forgets when the key is not in the container
WatchKnown(k, cb) ==
    /\ Idle /\ Len(regs) < Len(options.watch) + MaxWatchers
    /\ regs' = Append(regs, [key |-> k, cb |-> cb])
    /\ events' = IF k \in DOMAIN data THEN on(events, Len(regs) + 1) ELSE events
    /\ log' = <<[e |-> "$watch", id |-> Len(regs) + 1]>>
    /\ UNCHANGED <<options, destroyed, data, heap, el, innerHTML, cache, timers, promise,
                   stack, thrown>>

\* unwatch = component.$watch(k, cb)
Watch(k, cb) ==
    /\ Idle /\ Len(regs) < Len(options.watch) + MaxWatchers
    /\ regs' = Append(regs, [key |-> k, cb |-> cb])
    /\ events' = on(events, Len(regs) + 1)
    /\ log' = <<[e |-> "$watch", id |-> Len(regs) + 1]>>
    /\ UNCHANGED <<options, destroyed, data, heap, el, innerHTML, cache, timers, promise,
                   stack, thrown>>

\* the function $watch returned for registration id is called ($watch
\* drops the functions of the options.watch registrations)
Unwatch(id) ==
    /\ Idle
    /\ id \in (Len(options.watch) + 1)..Len(regs)
    /\ events' = off(events, id)
    /\ log' = <<[e |-> "unwatch", id |-> id]>>
    /\ UNCHANGED <<options, destroyed, data, heap, regs, el, innerHTML, cache, timers, promise,
                   stack, thrown>>

\* component.$nextTick(cb)
NextTick(cb) ==
    /\ Idle /\ Len(timers) < MaxTimers
    /\ Apply(Defer(Context(<<>>, <<>>), cb))
    /\ UNCHANGED <<options, destroyed, events, regs, el, innerHTML, cache, promise>>

\* the host runs the oldest timer
Timeout ==
    /\ Idle /\ timers # <<>>
    /\ timers' = Tail(timers)
    /\ promise' = [state |-> "pending", value |-> Undefined]
    /\ stack' = <<[kind |-> "timeout", cb |-> Head(timers), pc |-> "call",
                   result |-> Undefined]>>
    /\ log' = <<[e |-> "timeout", cb |-> Head(timers)]>>
    /\ UNCHANGED <<options, destroyed, data, heap, events, regs, el, innerHTML, cache, thrown>>

\* component.$destroy()
Destroy ==
    /\ Idle
    /\ IF destroyed
       THEN /\ Apply(Fault(Context(<<>>, <<[e |-> "$destroy"]>>)))
            /\ UNCHANGED <<events, destroyed, el>>
       ELSE /\ events' = <<>>
            /\ destroyed' = TRUE
            /\ el' = FALSE
            /\ log' = <<[e |-> "$destroy"]>>
            /\ UNCHANGED <<data, heap, timers, stack, thrown>>
    /\ UNCHANGED <<options, regs, innerHTML, cache, promise>>

\* component[k]: for a key of the data the accessor _setupReactivity and
\* $set define reads this.data[k]; for a computed entry the accessor
\* _setupComputed defines reads this.computed[k], whose accessor calls the
\* getter
Read(k) ==
    /\ Idle /\ Len(timers) <= MaxTimers
    /\ k \in DOMAIN data \cup DOMAIN options.computed
    /\ Apply(IF destroyed
             THEN Fault(Context(<<>>, <<[e |-> "read", key |-> k, result |-> Undefined]>>))
             ELSE Context(<<>>, <<[e |-> "read", key |-> k,
                                   result |-> IF k \in DOMAIN data THEN data[k]
                                              ELSE Getter(data, options.computed[k])]>>))
    /\ UNCHANGED <<options, destroyed, events, regs, el, innerHTML, cache, promise>>

\* component.templateEngine.compile(t)
Compile(t) ==
    /\ Idle
    /\ cache' = Cached(cache, t)
    /\ log' = <<[e |-> "compile", template |-> t, scans |-> scans(cache, t),
                 renderer |-> compile(cache, t)]>>
    /\ UNCHANGED <<options, destroyed, data, heap, events, regs, el, innerHTML, timers,
                   promise, stack, thrown>>

\* component.templateEngine.render(t, d)
RenderWith(t, d) ==
    /\ Idle
    /\ cache' = Cached(cache, t)
    /\ log' = <<[e |-> "render()", template |-> t, scans |-> scans(cache, t),
                 context |-> d, result |-> render(cache, t, d),
                 typeof |-> typeof(compile(cache, t))]>>
    /\ UNCHANGED <<options, destroyed, data, heap, events, regs, el, innerHTML, timers,
                   promise, stack, thrown>>

\* component.$destroy() on a component with teardown hooks: up to the
\* test of the beforeDestroy hook
Teardown ==
    /\ Idle
    /\ Apply(IF destroyed
             THEN Fault(Context(<<>>, <<[e |-> "$destroy"]>>))
             ELSE Context(<<[kind |-> "$destroy", pc |-> 1]>>, <<[e |-> "$destroy"]>>))
    /\ UNCHANGED <<options, destroyed, events, regs, el, innerHTML, cache, promise>>

----------------------------------------------------------------------------
(* The mutation API *)

Init == Constructed(Components)

Next ==
    \/ Emit
    \/ BeforeUpdate
    \/ Render
    \/ Updated
    \/ Each
    \/ \E k \in Keys, v \in Values : Set(k, v)
    \/ \E va, vb \in Values : SetMapping(va, vb)
    \/ \E k \in Keys, v \in Values : Assign(k, v)
    \/ \E k \in Keys, cb \in WatchCallbacks : Watch(k, cb)
    \/ \E id \in DOMAIN regs : Unwatch(id)
    \/ Destroy

Spec == Init /\ [][Next]_vars

----------------------------------------------------------------------------
(* Writes made by watchers and hooks.  The engine runs a synchronous phase *)
(* to its end before the host gets to make its next call.                  *)

\* a step of the running phase
Step == Emit \/ BeforeUpdate \/ Render \/ Updated \/ Each \/ Callback \/ Resolve

NestInit == Constructed(NestComponents)

NestNext ==
    \/ Emit
    \/ BeforeUpdate
    \/ Render
    \/ Updated
    \/ Each
    \/ \E k \in Keys, v \in Values : Set(k, v)
    \/ \E va, vb \in Values : SetMapping(va, vb)
    \/ \E k \in Keys, v \in Values : Assign(k, v)

NestSpec == NestInit /\ [][NestNext]_vars /\ WF_vars(Step)

----------------------------------------------------------------------------
(* $destroy and what is done to a destroyed component *)

DestroyInit == Constructed(DestroyComponents)

DestroyNext ==
    \/ Emit
    \/ EmitDestroy
    \/ BeforeUpdate
    \/ Render
    \/ Updated
    \/ Destroy
    \/ \E k \in Keys, v \in Numbers : Set(k, v)
    \/ \E k \in Keys, v \in Numbers : DataWrite(k, v)
    \/ \E k \in Keys \cup {NoKey} : Get(k)
    \/ \E k \in Keys, cb \in {Returns(Undefined)} : Watch(k, cb)
    \/ \E cb \in {Missing, Returns(Num(1))} : NextTick(cb)

DestroySpec == DestroyInit /\ [][DestroyNext]_vars

----------------------------------------------------------------------------
(* Teardown with hooks *)

\* what a beforeDestroy or destroyed hook is: left null, a function that
\* returns, a function that writes this.a = 1
TeardownHooks == {Missing, Returns(Undefined), Writes("a", Num(1))}

TeardownComponents ==
    { Options(view, AB, <<[key |-> "a", cb |-> Returns(Undefined)]>>,
              <<Returns(Undefined), Returns(Undefined)>>)
        @@ [beforeDestroy |-> b, destroyed |-> d] :
        view \in {Counter, Unbound}, b \in TeardownHooks, d \in TeardownHooks }

TeardownInit == Constructed(TeardownComponents)

TeardownNext ==
    \/ Emit
    \/ BeforeUpdate
    \/ Render
    \/ Updated
    \/ BeforeDestroy
    \/ Off
    \/ Destroyed
    \/ Clear
    \/ Teardown
    \/ \E k \in Keys, v \in Numbers : Set(k, v)

TeardownSpec == TeardownInit /\ [][TeardownNext]_vars

----------------------------------------------------------------------------
(* $nextTick *)

TickInit == Constructed(TickComponents)

TickNext ==
    \/ Emit
    \/ BeforeUpdate
    \/ Render
    \/ Updated
    \/ Each
    \/ Callback
    \/ Resolve
    \/ Timeout
    \/ \E cb \in TickCallbacks : NextTick(cb)
    \/ \E k \in Keys, v \in Values : Set(k, v)
    \/ \E va, vb \in Values : SetMapping(va, vb)

TickSpec == TickInit /\ [][TickNext]_vars

----------------------------------------------------------------------------
(* The cycle of a tracked write: dispatch, beforeUpdate, re-render, updated *)

\* components with watchers and both hooks: watchers and hooks that only
\* observe, a watcher that writes and no render target, an updated hook
\* that writes, and a component without hooks
CycleComponents ==
    { Options(Counter, AB, Observers, <<Returns(Undefined), Returns(Undefined)>>),
      Options(Unbound, AB, WatchA, <<Returns(Undefined), Returns(Undefined)>>),
      Options(Doubler, AB, WatchAB, <<Returns(Undefined), Writes("b", Num(1))>>),
      Options(Counter, AB, WatchA, NoHooks) }

CycleInit == Constructed(CycleComponents)

CycleNext ==
    \/ Emit
    \/ BeforeUpdate
    \/ Render
    \/ Updated
    \/ \E k \in Keys, v \in Values : Set(k, v)
    \/ \E k \in Keys, v \in Values : Assign(k, v)

CycleSpec == CycleInit /\ [][CycleNext]_vars

----------------------------------------------------------------------------
(* Construction *)

\* what a created, beforeMount or mounted hook is: left null, not a
\* function, a function that returns, a function that writes this.a = 1
ConstructHooks == {Missing, NotCallable, Returns(Undefined), Writes("a", Num(1))}

\* components with and without a render target, with every choice of the
\* three hooks of construction
ConstructComponents ==
    { Options(view, AB, <<[key |-> "a", cb |-> Returns(Undefined)]>>,
              <<Returns(Undefined), Returns(Undefined)>>)
        @@ [created |-> c, beforeMount |-> b, mounted |-> m] :
        view \in {Counter, Unbound}, c \in ConstructHooks, b \in ConstructHooks,
        m \in ConstructHooks }

\* new Kiwi(options) has initialized its fields and is about to call the
\* created hook
ConstructInit ==
    /\ options \in ConstructComponents
    /\ destroyed = FALSE
    /\ data = [k \in {} |-> Undefined]
    /\ heap = <<>>
    /\ regs = <<>>
    /\ events = <<>>
    /\ el = options.element
    /\ innerHTML = <<>>
    /\ cache = <<>>
    /\ timers = <<>>
    /\ promise = [state |-> "none", value |-> Undefined]
    /\ stack = <<[kind |-> "constructor", pc |-> 1]>>
    /\ log = <<[e |-> "new"]>>
    /\ thrown = FALSE

ConstructNext ==
    \/ Created
    \/ Setup
    \/ BeforeMount
    \/ Mount
    \/ Mounted
    \/ Emit
    \/ BeforeUpdate
    \/ Render
    \/ Updated
    \/ \E k \in Keys, v \in Numbers : Set(k, v)

ConstructSpec == ConstructInit /\ [][ConstructNext]_vars

----------------------------------------------------------------------------
(* Keys added by $set, and the watchers of keys that are still to be added *)

\* components whose data has no b: without a watcher, and with a watcher of
\* b in the options' watch table
AddComponents ==
    { Options(Counter, A, NoWatch, NoHooks),
      Options(Doubler, A, <<[key |-> "b", cb |-> Returns(Undefined)]>>,
              <<Returns(Undefined), Returns(Undefined)>>) }

AddInit == Constructed(AddComponents)

\* the host calls $watch for keys the container does not hold
AddNext ==
    \/ Emit
    \/ BeforeUpdate
    \/ Render
    \/ Updated
    \/ \E k \in Keys, v \in Values : Set(k, v)
    \/ \E k \in Keys, v \in Values : Assign(k, v)
    \/ \E k \in Keys : Read(k)
    \/ \E k \in Keys \ DOMAIN data, cb \in {Returns(Undefined)} : Watch(k, cb)

AddSpec == AddInit /\ [][AddNext]_vars

----------------------------------------------------------------------------
(* Computed entries *)

\* the components with a computed entry d = a * 2, shown by the template
ComputedComponents ==
    { Options(Doubler, AB, Observers, NoHooks),
      Options(Doubler, A, WatchA, <<Returns(Undefined), Returns(Undefined)>>),
      Options(Doubler, AB, NoWatch, <<Returns(Undefined), Writes("b", Num(1))>>) }

ComputedInit == Constructed(ComputedComponents)

ComputedNext ==
    \/ Emit
    \/ BeforeUpdate
    \/ Render
    \/ Updated
    \/ \E k \in Keys, v \in Values : Set(k, v)
    \/ \E k \in Keys, v \in Values : Assign(k, v)
    \/ \E k \in {"d"} : Read(k)

ComputedSpec == ComputedInit /\ [][ComputedNext]_vars

----------------------------------------------------------------------------
(* The template engine, called by the host and by the re-render *)

\* "{{c}}{{a b}}:{{a}}": an unknown identifier, a syntax error, a key
Broken == <<TRUE, <<"{", "{", "c", "}", "}", "{", "{", "a", " ", "b", "}", "}", ":", "{", "{", "a", "}", "}">>,
            <<>> >>

\* the templates the host compiles and renders: a key after a literal span,
\* an unknown identifier, a syntax error and a runtime exception, an
\* inherited name, an empty expression and a delimiter that is never closed,
\* and a literal span that is a name the cache object inherits
Templates ==
    { <<"a", "}", "}", ":", "{", "{", "a", "}", "}">>,
      <<"{", "{", "c", "}", "}", "-", "{", "{", " ", "b", "}", "}">>,
      <<"{", "{", "a", " ", "b", "}", "}", "{", "{", "a", "(", ")", "}", "}", ":", "{", "{", "b", "}", "}">>,
      <<"{", "{", "c", "o", "n", "s", "t", "r", "u", "c", "t", "o", "r", "}", "}">>,
      <<"{", "{", " ", "}", "}", "a", "{", "{">>,
      <<"c", "o", "n", "s", "t", "r", "u", "c", "t", "o", "r">> }

\* the data contexts the host renders with
Contexts ==
    { [k \in {"a"} |-> Num(1)],
      [k \in {"a", "b"} |-> IF k = "a" THEN Undefined ELSE Num(0)],
      [k \in {"b", "d"} |-> IF k = "b" THEN Null ELSE NaN] }

TemplateInit == Constructed({Options(Broken, A, NoWatch, NoHooks)})

TemplateNext ==
    \/ BeforeUpdate
    \/ Render
    \/ Updated
    \/ \E k \in Keys, v \in Numbers : Set(k, v)
    \/ \E t \in Templates : Compile(t)
    \/ \E t \in Templates, d \in Contexts : RenderWith(t, d)

TemplateSpec == TemplateInit /\ [][TemplateNext]_vars

----------------------------------------------------------------------------
(* Watchers that write the key they watch, unwatch and watch *)

\* the first of two watchers of a writes a; a watcher of a calls the
\* function the host's $watch returns; a watcher of a registers another
\* watcher of a and the next one writes a
DispatchComponents ==
    { Options(Counter, AB, <<[key |-> "a", cb |-> Writes("a", Num(1))],
                             [key |-> "a", cb |-> Returns(Undefined)]>>, NoHooks),
      Options(Counter, AB, <<[key |-> "a", cb |-> Unwatches(2)]>>, NoHooks),
      Options(Counter, AB, <<[key |-> "a", cb |-> Watches("a")],
                             [key |-> "a", cb |-> Writes("a", Num(1))]>>, NoHooks) }

DispatchInit == Constructed(DispatchComponents)

DispatchNext ==
    \/ Emit
    \/ EmitUnwatch
    \/ EmitWatch
    \/ BeforeUpdate
    \/ Render
    \/ Updated
    \/ \E k \in Keys, v \in Values : Set(k, v)
    \/ \E k \in Keys : Watch(k, Returns(Undefined))
    \/ \E id \in DOMAIN regs : Unwatch(id)

DispatchSpec == DispatchInit /\ [][DispatchNext]_vars

----------------------------------------------------------------------------
(* Watchers and hooks that throw *)

\* the first of two watchers of a throws, the second one does, the
\* beforeUpdate hook does
ThrowComponents ==
    { Options(Counter, AB, <<[key |-> "a", cb |-> Throws],
                             [key |-> "a", cb |-> Returns(Undefined)]>>,
              <<Returns(Undefined), Returns(Undefined)>>),
      Options(Counter, AB, <<[key |-> "a", cb |-> Returns(Undefined)],
                             [key |-> "a", cb |-> Throws]>>,
              <<Returns(Undefined), Returns(Undefined)>>),
      Options(Counter, AB, Observers, <<Throws, Returns(Undefined)>>) }

ThrowInit == Constructed(ThrowComponents)

ThrowNext ==
    \/ Emit
    \/ BeforeUpdate
    \/ Render
    \/ Updated
    \/ \E k \in Keys, v \in Values : Set(k, v)
    \/ \E k \in Keys, v \in Values : Assign(k, v)

ThrowSpec == ThrowInit /\ [][ThrowNext]_vars

----------------------------------------------------------------------------
(* The three ways to write a key *)

\* components whose watchers and hooks only observe: two watchers of a,
\* both hooks and a render target; a computed entry and no hooks
PathComponents ==
    { Options(Counter, AB, <<[key |-> "a", cb |-> Returns(Undefined)],
                             [key |-> "b", cb |-> Returns(Undefined)],
                             [key |-> "a", cb |-> Returns(Undefined)]>>,
              <<Returns(Undefined), Returns(Undefined)>>),
      Options(Doubler, AB, Observers, NoHooks) }

PathInit == Constructed(PathComponents)

\* what the host writes: a number, NaN, undefined
Written == Values \cup {Undefined}

PathNext ==
    \/ Emit
    \/ BeforeUpdate
    \/ Render
    \/ Updated
    \/ \E k \in Keys, v \in Written : Set(k, v)
    \/ \E k \in Keys, v \in Written : Assign(k, v)
    \/ \E k \in Keys, v \in Written : DataWrite(k, v)

PathSpec == PathInit /\ [][PathNext]_vars

----------------------------------------------------------------------------
(* Containers in containers *)

\* the containers the host has made: one with a property named as a key of
\* the data and a container in it, the container in it, one that holds
\* itself, and one with a number
Containers ==
    << Plain([k \in {"a", "x"} |-> IF k = "a" THEN Num(0) ELSE Ref(2)]),
       Plain([k \in {"x"} |-> Num(0)]),
       Plain([k \in {"x"} |-> Ref(3)]),
       Plain([k \in {"x"} |-> Num(0)]) >>

\* a component whose data holds the first container, with a watcher of a, a
\* watcher of b that writes a property of the container b holds, and a
\* watcher of x
NestedComponents ==
    { Options(Counter, [k \in {"a", "b"} |-> IF k = "a" THEN Num(0) ELSE Ref(1)],
              <<[key |-> "a", cb |-> Returns(Undefined)],
                [key |-> "b", cb |-> WritesIn("b", "x", Num(1))],
                [key |-> "x", cb |-> Returns(Undefined)]>>, NoHooks)
        @@ [heap |-> Containers] }

NestedInit == Constructed(NestedComponents)

\* what the host stores for b and for the key x it adds: a number, the
\* container that holds itself and the one with a number
Assigned == {Num(MaxVal), Ref(3), Ref(4)}

\* the host adds and writes x, writes a and b, and writes the properties
\* of the containers that hold a number
NestedNext ==
    \/ Emit
    \/ BeforeUpdate
    \/ Render
    \/ Updated
    \/ \E v \in Assigned \ {Ref(4)} : Set("x", v)
    \/ \E v \in Assigned : Assign("b", v)
    \/ Assign("a", Num(MaxVal))
    \/ \E i \in DOMAIN heap, k \in {"a", "x"}, v \in Numbers :
          /\ k \in DOMAIN heap[i].of /\ ~isObject(heap[i].of[k])
          /\ AssignIn(i, k, v)

NestedSpec == NestedInit /\ [][NestedNext]_vars

----------------------------------------------------------------------------
(* Computed entries named as keys of the data *)

\* options.computed: the getter of b returns an object or a number, the
\* getter of a returns an object, and both do
MergeComputed ==
    { [k \in {"b"} |-> Fresh], [k \in {"b"} |-> "a"], [k \in {"a"} |-> Fresh],
      [k \in {"a", "b"} |-> Fresh], [k \in {"d"} |-> Fresh] }

\* components of the template "a:{{a}}" whose data holds a number under a
\* and a container under b, with a watcher of a, a watcher of x and the
\* two hooks of the cycle; the container's x is what the getter's is, or
\* is not
MergeComponents ==
    { Options(<<TRUE, Counter[2], computed>>,
              [k \in {"a", "b"} |-> IF k = "a" THEN Num(0) ELSE Ref(1)],
              <<[key |-> "a", cb |-> Returns(Undefined)],
                [key |-> "x", cb |-> Returns(Undefined)]>>,
              <<Returns(Undefined), Returns(Undefined)>>)
        @@ [created |-> Missing, beforeMount |-> Returns(Undefined), mounted |-> Missing,
            heap |-> <<Plain([k \in {"x"} |-> Num(x)])>>] :
        computed \in MergeComputed, x \in 0..1 }

\* new Kiwi(options) has initialized its fields and is about to call the
\* created hook
MergeInit ==
    /\ options \in MergeComponents
    /\ destroyed = FALSE
    /\ data = [k \in {} |-> Undefined]
    /\ heap = options.heap
    /\ regs = <<>>
    /\ events = <<>>
    /\ el = options.element
    /\ innerHTML = <<>>
    /\ cache = <<>>
    /\ timers = <<>>
    /\ promise = [state |-> "none", value |-> Undefined]
    /\ stack = <<[kind |-> "constructor", pc |-> 1]>>
    /\ log = <<[e |-> "new"]>>
    /\ thrown = FALSE

\* the constructor, and then the host writes a and the x of the container
MergeNext ==
    \/ Created
    \/ Setup
    \/ BeforeMount
    \/ Mount
    \/ Mounted
    \/ Extend
    \/ Emit
    \/ BeforeUpdate
    \/ Render
    \/ Updated
    \/ \E v \in Numbers : Assign("a", v)
    \/ \E v \in Numbers : AssignIn(1, "x", v)

MergeSpec == MergeInit /\ [][MergeNext]_vars

----------------------------------------------------------------------------
(* The tokenizer, for every short template *)

\* the characters of the tokenizer's templates
Alphabet == {"{", "}", "a", " "}

\* every template of at most MaxLen characters, and a literal span that is
\* a name the cache object inherits
TokenTemplates ==
    UNION {[1..n -> Alphabet] : n \in 0..MaxLen}
      \cup {<<"c", "o", "n", "s", "t", "r", "u", "c", "t", "o", "r">>}

\* a Template of its own, with nothing cached yet
TokenInit ==
    /\ Constructed({Options(<<FALSE, t, <<>> >>, A, NoWatch, NoHooks) :
                       t \in TokenTemplates})

\* the host compiles and renders the template
TokenNext ==
    \/ Compile(options.template)
    \/ RenderWith(options.template, [k \in {"a"} |-> Num(1)])

TokenSpec == TokenInit /\ [][TokenNext]_vars

----------------------------------------------------------------------------
(* Reading the log *)

Last(seq) == seq[Len(seq)]
Of(lg, kind) == SelectSeq(lg, LAMBDA ev : ev.e = kind)
\* the running phase has thrown
Threw == \E i \in 1..Len(log) : log[i].e = "throw"
\* the phase was opened by a host call named op
OpenedBy(op) == log # <<>> /\ log[1].e = op
\* no listener's callback and no hook writes to the component
Observing ==
    /\ \A i \in 1..Len(events) : regs[events[i]].cb.do # "write"
    /\ options.beforeUpdate.do # "write"
    /\ options.updated.do # "write"
\* a template and a render target are bound
Bound == ~destroyed /\ el /\ options.template # <<>>
\* the data has the keys it was constructed with
InitialKeys == DOMAIN data = DOMAIN options.data
\* the render target's content for data d
Shown(d) == render(<<>>, options.template, extend(d, options.computed))
\* the live registrations for key k, in the emitter's order
WatchersOf(k) == SelectSeq(events, LAMBDA id : regs[id].key = k)
\* the step appends one event of the given kind to the running phase's log
Appends(kind) ==
    /\ Len(log') = Len(log) + 1
    /\ SubSeq(log', 1, Len(log)) = log
    /\ Last(log').e = kind

----------------------------------------------------------------------------
(* C1 *)

\* C1: with a template and a render target bound, no key added to the
\* initial data and no exception thrown so far, whenever no write is in
\* progress the render target's content is the template rendered against
\* the current data merged with the computed values
C1_TargetShowsData ==
    (Idle /\ Bound /\ ~thrown /\ InitialKeys) => innerHTML = Shown(data)

\* data {a: 0, b: 0}, template "a:{{a}}", $set('a', 1) leaves "a:1"
C1_Witness ==
    /\ Idle /\ ~thrown
    /\ options = Options(Counter, AB, WatchAB, NoHooks)
    /\ OpenedBy("$set") /\ log[1].key = "a" /\ log[1].value = Num(1)
    /\ log[1].stored = Num(0)
    /\ innerHTML = <<"a", ":", "1">>

----------------------------------------------------------------------------
(* C2 *)

\* $set({a: va, b: vb}) was called with a and b tracked and both values new
MappingChanges ==
    /\ OpenedBy("$set{}")
    /\ log[1].a.tracked /\ log[1].a.stored # log[1].a.value
    /\ log[1].b.tracked /\ log[1].b.stored # log[1].b.value

\* the dispatch of the write log[1][k] of a mapping: the event, then the
\* watchers of k
Dispatch(k) ==
    <<[e |-> "dataChange", key |-> k, newValue |-> log[1][k].value,
       oldValue |-> log[1][k].stored]>>
    \o [i \in 1..Len(WatchersOf(k)) |->
          [e |-> "watcher", id |-> WatchersOf(k)[i], newValue |-> log[1][k].value,
           oldValue |-> log[1][k].stored]]

----------------------------------------------------------------------------
(* C3 *)

\* C3: a write ($set or property assignment) to a tracked key of the value
\* the key already holds is a no-op: no callback, no watcher, no hook, no
\* re-render, and the stored value stays
C3_SecondWriteIsNoOp ==
    \A op \in {"$set", "assign"} :
        (OpenedBy(op) /\ ~destroyed /\ InitialKeys /\ log[1].tracked
            /\ log[1].stored = log[1].value)
            => /\ Idle
               /\ log = <<log[1]>>
               /\ data[log[1].key] = log[1].stored

----------------------------------------------------------------------------
(* C4 *)

\* C4: $set(k, v) on a tracked key with live watchers: the call that finds
\* v already stored (the second of two in a row) invokes no watcher, and the
\* call that finds another value stored invokes each watcher of k once with
\* (v, previous value)
C4_WatcherFiresOnFirstSet ==
    (OpenedBy("$set") /\ ~destroyed /\ InitialKeys /\ log[1].tracked)
        => /\ log[1].stored = log[1].value => Of(log, "watcher") = <<>>
           /\ (log[1].stored # log[1].value /\ Observing /\ Idle /\ ~Threw)
                => Of(log, "watcher")
                     = [i \in 1..Len(WatchersOf(log[1].key)) |->
                          [e |-> "watcher", id |-> WatchersOf(log[1].key)[i],
                           newValue |-> log[1].value, oldValue |-> log[1].stored]]

----------------------------------------------------------------------------
(* C5 *)

\* C5: a step that changes the value stored under a tracked key k emits
\* "dataChange" exactly once, with (k, new value, value stored before the
\* step), and starts the change callback with these arguments on top of the
\* writer's stack, so that it has run when the write returns; no timer is
\* set, nothing is queued
C5_ChangeCallsBackOnce ==
    [][\A k \in DOMAIN data :
         data'[k] # data[k]
           => LET ev == [e |-> "dataChange", key |-> k, newValue |-> data'[k],
                         oldValue |-> data[k]]
                  before == IF Idle THEN <<>> ELSE Of(log, "dataChange")
              IN  /\ Last(log') = ev
                  /\ Of(log', "dataChange") = Append(before, ev)
                  /\ stack' # <<>>
                  /\ Last(stack').kind = "callback"
                  /\ Last(stack').key = k
                  /\ Last(stack').newValue = data'[k]
                  /\ Last(stack').oldValue = data[k]
                  /\ Last(stack').pc = "emit"
                  /\ Last(stack').called = <<>>
                  /\ timers' = timers]_vars

\* the change callback has just been entered for a write of a new value
C5_Witness ==
    /\ stack # <<>>
    /\ Top.kind = "callback" /\ Top.pc = "emit" /\ Top.called = <<>>
    /\ Top.newValue # Top.oldValue
    /\ data[Top.key] = Top.newValue
    /\ Last(log) = [e |-> "dataChange", key |-> Top.key, newValue |-> Top.newValue,
                    oldValue |-> Top.oldValue]
    /\ Len(stack) > 1

----------------------------------------------------------------------------
(* C6 *)

\* the watchers a dispatch has to have called when forEach has passed the
\* first `done` listeners
Due(f, done) ==
    LET ids == SelectSeq(SubSeq(f.listeners, 1, done), LAMBDA id : regs[id].key = f.key)
    IN  [j \in 1..Len(ids) |->
            [id |-> ids[j], newValue |-> f.newValue, oldValue |-> f.oldValue]]

\* C6: the dispatch of one write calls the callbacks of the registrations
\* for the written key, each once, in registration order, with
\* (newValue, oldValue), and calls no callback registered for another key
C6_WatchersInRegistrationOrder ==
    \A n \in 1..Len(stack) :
        stack[n].kind = "callback"
            => LET f == stack[n]
               IN  /\ \A i, j \in 1..Len(f.listeners) :
                         i < j => f.listeners[i] < f.listeners[j]
                   /\ f.called = Due(f, IF f.pc = "emit" THEN f.i - 1
                                        ELSE Len(f.listeners))

\* a write to a has called two watchers of a (one of options.watch, one of
\* $watch) and passed the watcher of b registered between them
C6_Witness ==
    /\ stack # <<>>
    /\ Top.kind = "callback" /\ Top.pc = "render" /\ Top.key = "a"
    /\ Top.listeners = <<1, 2, 3>>
    /\ regs[2].key = "b"
    /\ Len(options.watch) = 2
    /\ Top.called = <<[id |-> 1, newValue |-> Top.newValue, oldValue |-> Top.oldValue],
                      [id |-> 3, newValue |-> Top.newValue, oldValue |-> Top.oldValue]>>

----------------------------------------------------------------------------
(* C7 *)

\* C7: a call of the function $watch returned for registration id removes
\* id from the listeners and nothing else, also when another registration
\* has the same key and callback; when id is not among the listeners (a
\* second call, a call after $destroy) it changes nothing, and it never
\* throws
C7_UnwatchRemovesItsOwn ==
    [][\A id \in DOMAIN regs :
         log' = <<[e |-> "unwatch", id |-> id]>>
           => /\ events' = SelectSeq(events, LAMBDA l : l # id)
              /\ (\A i \in 1..Len(events) : events[i] # id) => events' = events
              /\ thrown' = thrown
              /\ stack' = <<>>
              /\ UNCHANGED <<options, destroyed, data, regs, el, innerHTML, cache,
                             timers, promise>>]_vars

\* the function of a $watch registration has been called, and a
\* registration with the same key and callback stays
C7_Witness ==
    \E id \in DOMAIN regs :
        /\ log = <<[e |-> "unwatch", id |-> id]>>
        /\ \E i \in 1..Len(events) : events[i] # id /\ regs[events[i]] = regs[id]

----------------------------------------------------------------------------
(* C8 *)

\* frame f waits for a write that its own watcher, hook or callback made
Suspended(f) ==
    CASE f.kind = "callback" ->
           \/ /\ f.pc = "emit"
              /\ f.called # <<>>
              /\ regs[Last(f.called).id].cb.do = "write"
           \/ /\ f.pc = "render"
              /\ options.beforeUpdate.do = "write"
      [] f.kind = "timeout" -> f.pc = "resolve" /\ f.cb.do = "write"
      [] OTHER -> TRUE

C8_Nest ==
    \* below the running cycle are only callers waiting for it to return
    /\ \A n \in 1..(Len(stack) - 1) : Suspended(stack[n])
    \* a running phase can always take its next step
    /\ ~Idle => ENABLED Step
    \* every cycle of a phase that has returned has rendered
    /\ (Idle /\ Bound /\ ~Threw)
          => Len(Of(log, "render")) = Len(Of(log, "dataChange"))
    \* the last render of a phase that has returned shows the stored values
    /\ (Idle /\ Bound /\ ~Threw /\ InitialKeys /\ Of(log, "render") # <<>>)
          => Last(Of(log, "render")).html = Shown(data)

C8_Render ==
    Appends("render")
        => /\ Top.kind = "callback" /\ Top.pc = "render"
           /\ Last(stack') = [Top EXCEPT !.pc = "updated"]
           /\ SubSeq(stack', 1, Len(stack') - 1) = Rest
           /\ data' = data
           /\ Last(log').html = Shown(data')
           /\ innerHTML' = Shown(data')

\* C8: a write made by a watcher or hook runs its whole cycle on top of the
\* suspended cycle that made it, so before that cycle renders; a running
\* phase is never stuck and comes to its end; every render shows the values
\* stored when it runs, and the last render of a phase that returned shows
\* the values then stored
C8_NestedCycles == []C8_Nest /\ [][C8_Render]_vars /\ (~Idle ~> Idle)

\* $set('a', 1) has returned: the watcher of a wrote b, whose cycle rendered
\* before the cycle of a did
C8_Witness ==
    /\ Idle /\ ~Threw /\ Bound
    /\ OpenedBy("$set") /\ log[1].key = "a"
    /\ options.computed # <<>>
    /\ \E i, j, k, l, m \in 1..Len(log) :
          /\ i < j /\ j < k /\ k < l /\ l < m
          /\ log[i].e = "dataChange" /\ log[i].key = "a"
          /\ log[j].e = "watcher"
          /\ log[k].e = "dataChange" /\ log[k].key = "b"
          /\ log[l].e = "render"
          /\ log[m].e = "render" /\ log[m].html = Shown(data)

----------------------------------------------------------------------------
(* C9 *)

\* the timer callbacks running in stack stk
Running(stk) == SelectSeq(stk, LAMBDA f : f.kind = "timeout")

C9_Phase ==
    \* a timer callback runs at the bottom of a phase the host opened for it
    /\ \A n \in 1..Len(stack) :
          stack[n].kind = "timeout" => n = 1 /\ OpenedBy("timeout")
    \* what the phase has registered waits at the end of the host's queue,
    \* in the order of registration
    /\ LET registered == Of(log, "$nextTick")
           waiting == Len(timers) - Len(registered)
       IN  /\ waiting >= 0
           /\ \A i \in 1..Len(registered) : timers[waiting + i] = registered[i].cb
    \* when a timer callback starts every re-render before it has happened
    /\ (stack # <<>> /\ Top.kind = "timeout" /\ Top.pc = "call"
          /\ Bound /\ ~thrown /\ InitialKeys)
          => innerHTML = Shown(data)

C9_Timers ==
    \* $nextTick adds its callback behind the waiting ones and runs nothing
    /\ Len(timers') > Len(timers)
          => /\ timers' = Append(timers, Last(timers'))
             /\ Last(log') = [e |-> "$nextTick", cb |-> Last(timers')]
             /\ Running(stack') = Running(stack)
             /\ data' = data
    \* a timer callback starts when no phase runs, the oldest first
    /\ Running(stack') # Running(stack) /\ Running(stack) = <<>>
          => /\ Idle
             /\ timers # <<>>
             /\ stack' = <<[kind |-> "timeout", cb |-> Head(timers), pc |-> "call",
                            result |-> Undefined]>>
             /\ timers' = Tail(timers)

\* C9: a callback handed to $nextTick, by the host or inside a watcher or
\* update hook, does not run in the phase that registers it; it runs in a
\* phase of its own that starts when no phase runs, so after every re-render
\* of the phases before it, and the callbacks run in registration order
C9_NextTickRunsLater == []C9_Phase /\ [][C9_Timers]_vars

\* the callback a hook handed to $nextTick starts: the render target shows
\* the written data, and a callback registered later still waits
C9_Witness ==
    /\ stack # <<>>
    /\ Top.kind = "timeout" /\ Top.pc = "call"
    /\ Top.cb = Returns(Undefined)
    /\ options.beforeUpdate = Defers
    /\ timers # <<>>
    /\ Bound /\ data # options.data /\ innerHTML = Shown(data)

----------------------------------------------------------------------------
(* C10 *)

\* C10: when the phase of a $nextTick timer has come to its end, the
\* completion $nextTick returned is resolved with what the callback
\* returned, null when no callback was given, whatever the callback did
C10_CompletionSettles ==
    (Idle /\ OpenedBy("timeout"))
        => promise = [state |-> "resolved", value |-> Result(log[1].cb)]

----------------------------------------------------------------------------
(* C11 *)

\* the public operations of a component
PublicOperations == {"$set", "$set{}", "$get", "$watch", "$nextTick", "$destroy"}

\* the step is a call of a public operation by the host
Called == Idle /\ vars' # vars /\ log' # <<>> /\ log'[1].e \in PublicOperations

\* C11: a public operation ($set, $get with and without a key, $watch,
\* $nextTick, $destroy again) called after $destroy has returned ends with
\* an error, and the error is not the TypeError of a null reference
C11_FailsFastAfterDestroy ==
    [][(destroyed /\ Called)
          => /\ Last(log').e = "throw"
             /\ Last(log') # TypeError]_vars

----------------------------------------------------------------------------
(* C12 *)

\* C12: once $destroy has returned the render target is not written and no
\* watcher registered before the $destroy is invoked (the registrations a
\* destroyed component has were all made after it)
C12_DestroyDetaches ==
    [][destroyed
          => /\ innerHTML' = innerHTML
             /\ \A i \in (Len(log) + 1)..Len(log') :
                   (~Idle /\ log'[i].e = "watcher")
                      => \E j \in 1..Len(events) : events[j] = log'[i].id]_vars

----------------------------------------------------------------------------
(* C13 *)

\* the host's call of compile or render that the step makes
Compiling ==
    /\ Idle /\ vars' # vars
    /\ log' # <<>> /\ log'[1].e \in {"compile", "render()"}

\* C13: a compile of a template the cache holds returns the renderer the
\* cache holds for it and does not scan the template again; a compile scans
\* the template at most once, and only when the cache does not hold it,
\* which it does from then on; no step removes or replaces an entry of the
\* cache
C13_CompileOnce ==
    [][/\ \A t \in DOMAIN cache : t \in DOMAIN cache' /\ cache'[t] = cache[t]
       /\ Compiling
            => /\ log'[1].scans \in {0, 1}
               /\ log'[1].scans = 1
                    => /\ log'[1].template \notin DOMAIN cache
                       /\ log'[1].template \in DOMAIN cache'
               /\ log'[1].template \in DOMAIN cache => log'[1].scans = 0
               /\ (log'[1].e = "compile" /\ log'[1].template \in DOMAIN cache)
                     => log'[1].renderer = cache[log'[1].template]]_vars

\* a second compile of a template, with other templates compiled in between
C13_Witness ==
    /\ OpenedBy("compile") /\ log[1].scans = 0
    /\ log[1].template \in DOMAIN cache
    /\ log[1].renderer = cache[log[1].template]
    /\ Cardinality(DOMAIN cache) > 2

----------------------------------------------------------------------------
(* C14 *)

\* the expressions that are one name
Names == {<<c>> : c \in {"a", "b", "c", "d"}} \cup DOMAIN ObjectPrototype
\* expression expr names a key of context d
NamesKey(expr, d) == Len(expr) = 1 /\ expr[1] \in DOMAIN d

\* what the token contributes to the rendered text: a literal span itself,
\* a name that is no key of d and an expression evaluating to undefined
\* nothing, any other expression its value
Contribution(token, d) ==
    IF token.type = "text" THEN token.value
    ELSE IF token.value \in Names /\ ~NamesKey(token.value, d) THEN <<>>
    ELSE IF Evaluate(token.value, d) = Undefined THEN <<>>
    ELSE Stringify(Evaluate(token.value, d))

\* C14: render(T, D) returns the contributions of the tokens of T, left to
\* right: each literal span verbatim, each expression's value, and nothing
\* for an expression that evaluates to undefined or names a key absent from D
C14_RenderConcatenates ==
    OpenedBy("render()")
        => LET toks == tokens(log[1].template, 1)
           IN  log[1].result
                 = Join([i \in 1..Len(toks) |-> Contribution(toks[i], log[1].context)])

----------------------------------------------------------------------------
(* C15 *)

\* evaluating the expression of the token against d fails
Fails(token, d) == token.type = "expression" /\ Evaluate(token.value, d) = EvalError

\* the text of template t for d when every failing expression gives nothing
\* and every other token what it gives by itself
Caught(t, d) ==
    LET toks == tokens(t, 1)
    IN  Join([i \in 1..Len(toks) |->
                IF Fails(toks[i], d) THEN <<>> ELSE RenderToken(toks[i], d)])

\* C15: an expression that fails (unknown identifier, syntax error, runtime
\* exception) contributes nothing and the tokens after it are rendered all
\* the same: render(T, D) called by the host returns, and a tracked write
\* with a changed value returns with the render target re-rendered, and no
\* exception reaches either caller
C15_FailureIsCaughtAtItsToken ==
    /\ ~thrown
    /\ (OpenedBy("render()")
            /\ \E i \in 1..Len(tokens(log[1].template, 1)) :
                  Fails(tokens(log[1].template, 1)[i], log[1].context))
         => Idle /\ log[1].result = Caught(log[1].template, log[1].context)
    /\ (OpenedBy("$set") /\ Idle /\ Bound /\ log[1].tracked
            /\ log[1].stored # log[1].value)
         => /\ Of(log, "render") # <<>>
            /\ innerHTML = Caught(options.template, extend(data, options.computed))

\* "{{c}}{{a b}}:{{a}}" re-rendered by $set('a', 1): ":1"
C15_Witness ==
    /\ OpenedBy("$set") /\ Idle /\ ~thrown
    /\ \E i \in 1..2 : Fails(tokens(options.template, 1)[i], data)
    /\ log[1].value = Num(1)
    /\ innerHTML = <<":", "1">>

----------------------------------------------------------------------------
(* C16 *)

\* a * 2 for the a the container holds now
Twice == IF data["a"].t = "number" THEN Num(2 * data["a"].n) ELSE NaN
\* what the template "{{ b}}{{d }}" shows for the data as it is now
ShowsTwice ==
    (IF "b" \in DOMAIN data THEN Stringify(data["b"]) ELSE <<>>) \o Stringify(Twice)
\* what the template shows for d is the value for the a stored now
ShownTwice ==
    \E shown \in {<<>>} \cup {Stringify(v) : v \in Values} :
        innerHTML = shown \o Stringify(Twice)

\* C16: a computed entry d = a * 2 is computed anew by every read: reading
\* the component's property d gives twice the a stored at that moment, every
\* re-render shows twice the a stored when it renders, so between writes the
\* render target shows the value for the last write, and neither a read nor
\* a render registers a watcher
C16_ComputedIsRecomputed ==
    /\ OpenedBy("read") => log[1].result = Twice
    /\ (Idle /\ Bound /\ ~thrown) => ShownTwice
    /\ log # <<>> /\ Last(log).e = "render" => Last(log).html = ShowsTwice
    /\ Len(events) = Len(options.watch) /\ regs = options.watch

\* a was 0 and the target showed d = 0; after $set('a', 1) it shows d = 2,
\* and so reads the property d
C16_Witness ==
    /\ OpenedBy("read") /\ log[1].result = Num(2)
    /\ "b" \in DOMAIN data /\ data["b"] = Num(0)
    /\ innerHTML = <<"0", "2">>

----------------------------------------------------------------------------
(* C17 *)

\* a write, by $set or by property assignment, that found another value
\* stored for a key $set has added
ChangesAdded ==
    /\ log # <<>> /\ log[1].e \in {"$set", "assign"}
    /\ log[1].tracked /\ log[1].key \notin DOMAIN options.data
    /\ log[1].stored # log[1].value

----------------------------------------------------------------------------
(* C18 *)

\* a write, by $set or by property assignment, to a key the container holds
Writing == log # <<>> /\ log[1].e \in {"$set", "assign"} /\ log[1].tracked

----------------------------------------------------------------------------
(* C19 *)

\* where the first event of the kind is in the log, 0 when there is none
First(kind) ==
    IF \E i \in 1..Len(log) : log[i].e = kind
    THEN CHOOSE i \in 1..Len(log) :
            log[i].e = kind /\ \A j \in 1..(i - 1) : log[j].e # kind
    ELSE 0

\* both events have happened, the first kind before the second
Before(kind, later) == (First(kind) > 0 /\ First(later) > 0) => First(kind) < First(later)

\* C19: while and after new Kiwi(options) runs, nothing is thrown; each of
\* created, beforeMount and mounted has been called at most once, and when
\* the constructor has returned exactly once if it is a function and not at
\* all if it is missing or not a function; created is called before the
\* setup of methods, computed entries, observer and watchers, the setup
\* before beforeMount, beforeMount before mounted; the first render comes
\* after the setup and the call of beforeMount and before the call of
\* mounted, and has happened when the constructor returns with a template
\* and a render target bound
C19_HooksOfConstruction ==
    OpenedBy("new")
        => /\ ~thrown /\ ~Threw
           /\ \A name \in {"created", "beforeMount", "mounted"} :
                 /\ Len(Of(log, name)) <= 1
                 /\ (~isFunction(options[name])) => Of(log, name) = <<>>
                 /\ (Idle /\ isFunction(options[name])) => Len(Of(log, name)) = 1
           /\ Len(Of(log, "setup")) <= 1
           /\ (First("created") > 0) => First("created") = 2
           /\ Before("created", "setup")
           /\ Before("setup", "beforeMount")
           /\ Before("beforeMount", "mounted")
           /\ Before("setup", "render")
           /\ Before("beforeMount", "render")
           /\ Before("render", "mounted")
           /\ (First("beforeMount") > 0) => First("setup") > 0
           /\ (First("render") > 0) => First("setup") > 0
           /\ (First("mounted") > 0 /\ Bound) => First("render") > 0
           /\ (First("mounted") > 0) => First("setup") > 0
           /\ Idle => First("setup") > 0
           /\ (Idle /\ Bound) => First("render") > 0
           /\ (Idle /\ ~Bound) => First("render") = 0

\* the constructor has returned: the three hooks ran around the setup and
\* the first render, and beforeMount had written to the component
C19_Witness ==
    /\ OpenedBy("new") /\ Idle /\ Bound
    /\ options.beforeMount = Writes("a", Num(1))
    /\ First("created") = 2 /\ First("setup") = 3 /\ First("beforeMount") = 4
    /\ First("beforeMount") < First("render")
    /\ First("render") < First("mounted")
    /\ Len(Of(log, "render")) = 2

----------------------------------------------------------------------------
(* C20 *)

\* the re-renders of the running phase: between the hooks of one mutation.
\* A re-render is the event right after the call of a beforeUpdate hook
\* that only returns, and the event after it is the call of the updated
\* hook for the same mutation, which is made before the phase ends.  When
\* the phase has ended nothing is left for a later tick: no timer, every
\* mutation of the phase has had its re-render, and the target shows the
\* data; without template and target nothing is rendered
C20_Renders ==
    /\ \A i \in 1..Len(log) :
          log[i].e = "render"
            => /\ options.beforeUpdate.do = "return"
                    => i > 1 /\ log[i - 1].e = "beforeUpdate"
               /\ options.updated # Missing
                    => /\ i = Len(log) => ~Idle /\ Top.pc = "updated"
                       /\ i < Len(log)
                            => /\ log[i + 1].e = "updated"
                               /\ options.beforeUpdate.do = "return"
                                    => log[i + 1].key = log[i - 1].key
    /\ Idle
         => /\ timers = <<>>
            /\ Bound => /\ Len(Of(log, "render")) = Len(Of(log, "dataChange"))
                         /\ innerHTML = Shown(data)
            /\ ~Bound => Of(log, "render") = <<>> /\ innerHTML = <<>>

\* the steps of the cycle: a write of another value to a tracked key takes
\* the idle component to the dispatch of that change; a re-render is made
\* by the callback of a mutation whose watchers, those listening when its
\* dispatch began, have all been called, and only with template and target
C20_Steps ==
    /\ (Idle /\ log' # log /\ log'[1].e \in {"$set", "assign"} /\ log'[1].tracked
           /\ log'[1].stored # log'[1].value)
         => /\ ~Idle'
            /\ stack'[1].pc = "emit" /\ stack'[1].key = log'[1].key
            /\ log'[2].e = "dataChange"
    /\ (~Idle /\ Appends("render"))
         => /\ Top.kind = "callback" /\ Bound
            /\ [j \in 1..Len(Top.called) |-> Top.called[j].id]
                 = SelectSeq(Top.listeners, LAMBDA id : regs[id].key = Top.key)

\* C20: a write of another value to a tracked key starts the dispatch of
\* its watchers at once; the re-render of a mutation comes after all its
\* watchers, only with template and target bound, right after the call of
\* beforeUpdate and right before the call of updated for that mutation; and
\* when the write returns the component is idle with nothing left to do
C20_DispatchThenRender == []C20_Renders /\ [][C20_Steps]_vars

\* a write has returned: watcher, beforeUpdate, re-render and updated, in
\* this order
C20_Witness ==
    /\ Idle /\ Bound /\ log # <<>> /\ log[1].e \in {"$set", "assign"}
    /\ Len(log) = 6
    /\ [i \in 2..6 |-> log[i].e]
         = [i \in 2..6 |-> <<"", "dataChange", "watcher", "beforeUpdate", "render",
                               "updated">>[i]]

----------------------------------------------------------------------------
(* C21 *)

\* the step calls the hook of the name
Calls(name) == \E i \in (Len(log) + 1)..Len(log') : log'[i].e = name

\* C21: $destroy calls beforeDestroy while every watcher is attached and
\* the references are held, and calls destroyed only when the watchers are
\* detached and the references (data, computed, observer, render target)
\* are released
C21_HooksBracketTeardown ==
    [][/\ (~Idle /\ Calls("beforeDestroy"))
            => /\ Len(events) = Len(regs) /\ ~destroyed
               /\ el = options.element
       /\ (~Idle /\ Calls("destroyed"))
            => events = <<>> /\ destroyed /\ ~el]_vars

----------------------------------------------------------------------------
(* C25 *)

\* the n characters of t from position i are a run: the opening delimiter,
\* optional whitespace, at least one character other than a line break and
\* no line break up to the last of them, optional whitespace, the closing
\* delimiter
Run(t, i, n) ==
    /\ n > Len(delimiters[1]) + Len(delimiters[2])
    /\ i + n - 1 <= Len(t)
    /\ Occurs(delimiters[1], t, i)
    /\ Occurs(delimiters[2], t, i + n - Len(delimiters[2]))
    /\ \E a \in (i + 2)..(i + n - 3) : \E b \in a..(i + n - 3) :
          /\ \A j \in (i + 2)..(a - 1) : IsSpace(t[j])
          /\ \A j \in a..b : IsDot(t[j])
          /\ \A j \in (b + 1)..(i + n - 3) : IsSpace(t[j])

\* a run starts at position i of t
RunAt(t, i) == \E n \in 1..(Len(t) - i + 1) : Run(t, i, n)

RECURSIVE Partitions(_, _, _)
\* the tokens account for t from position i on, in order and with nothing
\* left out: a text token is a non-empty span of t in which no run starts,
\* followed by no other text token; an expression token is the inside of a
\* run of t without the whitespace around it
Partitions(toks, t, i) ==
    IF toks = <<>> THEN i = Len(t) + 1
    ELSE LET token == Head(toks)
             n == Len(token.value)
         IN  IF token.type = "text"
             THEN /\ n > 0 /\ i + n - 1 <= Len(t)
                  /\ token.value = SubSeq(t, i, i + n - 1)
                  /\ \A j \in i..(i + n - 1) : ~RunAt(t, j)
                  /\ Len(toks) > 1 => toks[2].type = "expression"
                  /\ Partitions(Tail(toks), t, i + n)
             ELSE /\ token.type = "expression"
                  /\ n > 0 => ~IsSpace(token.value[1]) /\ ~IsSpace(token.value[n])
                  /\ \E m \in 1..(Len(t) - i + 1) :
                        /\ Run(t, i, m)
                        /\ token.value = trim(SubSeq(t, i + 2, i + m - 3))
                        /\ Partitions(Tail(toks), t, i + m)

\* C25: the tokens of a template partition it, in order and with nothing
\* left out, into non-empty literal spans held verbatim and runs whose
\* expression is held without the whitespace around it; and a template in
\* which no run starts renders to itself
C25_TokensPartitionTheTemplate ==
    OpenedBy("render()")
        => /\ log[1].template \in DOMAIN cache
                => Partitions(cache[log[1].template], log[1].template, 1)
           /\ (\A j \in 1..Len(log[1].template) : ~RunAt(log[1].template, j))
                => /\ log[1].typeof = "string"
                   /\ log[1].result = log[1].template

----------------------------------------------------------------------------
(* C26 *)

RECURSIVE Matches(_, _)
\* the runs compile matches in t from position lastIndex on: where each
\* begins and where the next search begins
Matches(t, lastIndex) ==
    LET match == exec(t, lastIndex)
    IN  IF match.found
        THEN <<[index |-> match.index, lastIndex |-> match.lastIndex]>>
               \o Matches(t, match.lastIndex)
        ELSE <<>>

\* C26: every run compile matches is a shortest one: no shorter run lies
\* inside it, so that no expression token holds an opening delimiter that
\* starts a run of its own, nor a closing delimiter
C26_ShortestRun ==
    OpenedBy("compile")
        => LET runs == Matches(log[1].template, 1)
           IN  \A r \in 1..Len(runs) :
                 \A j \in runs[r].index..(runs[r].lastIndex - 1) :
                   \A n \in 1..(runs[r].lastIndex - j) :
                     Run(log[1].template, j, n)
                       => j = runs[r].index /\ j + n = runs[r].lastIndex

----------------------------------------------------------------------------
(* C27 *)

\* the step is a call that adds a key to the container
Adds == Idle /\ DOMAIN data' # DOMAIN data

\* C27: the $set that adds a key returns having done nothing but store it:
\* no dataChange, no watcher, no hook and no render, so the render target
\* keeps its content; the content changes only by the render of a phase that
\* a write of a value not === the stored one to a key of the container has
\* opened
C27_AddingIsSilent ==
    [][/\ Adds => /\ log' = <<Write("$set", log'[1].key, log'[1].value)>>
                  /\ ~log'[1].tracked
                  /\ log'[1].key \in DOMAIN data' \ DOMAIN data
                  /\ stack' = <<>> /\ ~thrown'
                  /\ innerHTML' = innerHTML
       /\ innerHTML' # innerHTML
            => /\ Calls("render")
               /\ log'[1].e \in {"$set", "assign"}
               /\ log'[1].tracked
               /\ ~StrictEquals(log'[1].stored, log'[1].value)]_vars

\* b, which the template shows and a watcher is registered for, has been
\* added with a value: the render target still shows nothing for it
C27_Witness ==
    /\ OpenedBy("$set") /\ ~log[1].tracked /\ Len(log) = 1
    /\ WatchersOf(log[1].key) # <<>>
    /\ Bound /\ log[1].value # Undefined
    /\ innerHTML # Shown(data)

----------------------------------------------------------------------------
(* C28 *)

\* the calls of watcher id in the running (or last) phase
Notified(id) == SelectSeq(log, LAMBDA ev : ev.e = "watcher" /\ ev.id = id)

\* C28: when a phase has ended, every watcher it has called has been called
\* last with the value its key has now
C28_LastNotificationIsCurrent ==
    (Idle /\ ~Threw)
        => \A id \in DOMAIN regs :
             Notified(id) # <<>>
               => Last(Notified(id)).newValue = data[regs[id].key]

----------------------------------------------------------------------------
(* C29 *)

\* C29: a watcher is called only while it is registered, so never after the
\* function its $watch returned has returned; and a watcher registered
\* while a phase runs is called only by a dispatch for its key that began
\* after it was registered
C29_UnwatchedIsNotCalled ==
    /\ [][\A i \in (Len(log) + 1)..Len(log') :
            (i > 1 /\ log'[i].e = "watcher")
               => \E l \in 1..Len(events) : events[l] = log'[i].id]_vars
    /\ [](\A i \in 1..Len(log) : \A j \in 1..(i - 1) :
            (log[i].e = "watcher" /\ log[j].e = "$watch" /\ log[j].id = log[i].id)
               => \E d \in (j + 1)..(i - 1) :
                     /\ log[d].e = "dataChange"
                     /\ log[d].key = regs[log[i].id].key)

----------------------------------------------------------------------------
(* C22 *)

\* C22: observe returns by itself, whatever the containers hold: it never
\* runs until the call stack has no room left
C22_ObserveTerminates == \A i \in 1..Len(log) : log[i] # RangeError

----------------------------------------------------------------------------
(* C23 *)

\* the host writes a value that is not === the stored one
Distinct(header) == ~StrictEquals(header.stored, header.value)

----------------------------------------------------------------------------
(* C24 *)

\* the step calls a watcher that writes a property of the container its key
\* holds, with a value the property does not have
WritesProperty(cb) ==
    /\ stack # <<>> /\ Top.kind = "callback" /\ Top.pc = "emit"
    /\ Matching(Top) # {}
    /\ cb = regs[Top.listeners[NextListener(Top)]].cb
    /\ cb.do = "writeIn"
    /\ isObject(data[cb.key])
    /\ cb.property \in DOMAIN heap[data[cb.key].n].of
    /\ ~StrictEquals(heap[data[cb.key].n].of[cb.property], cb.value)

\* C24: as long as no observe has failed, every property of every container
\* reachable from the data has its accessor, at construction and from the
\* moment a container is stored for a key, before the change callback for
\* it runs; and a write to such a property by a watcher invokes the change
\* callback for the property
C24_ObservedTransitively ==
    /\ [](~thrown => \A i \in Reachable : DOMAIN heap[i].of \subseteq heap[i].observed)
    /\ [][\A cb \in {regs[id].cb : id \in DOMAIN regs} :
            (WritesProperty(cb) /\ ~thrown')
               => /\ Last(log') = [e |-> "dataChange", key |-> cb.property,
                                   newValue |-> cb.value,
                                   oldValue |-> heap[data[cb.key].n].of[cb.property]]
                  /\ Len(stack') = Len(stack) + 1
                  /\ Last(stack').pc = "emit"]_vars

\* the host has stored the fourth container for b; the watcher of b has
\* written its property x and the change callback has run for x
C24_Witness ==
    /\ log # <<>> /\ log[1].e \in {"$set", "assign"}
    /\ log[1].key = "b" /\ log[1].value = Ref(4)
    /\ Idle /\ ~thrown
    /\ \E i \in 1..Len(log) : \E j \in (i + 1)..Len(log) :
          /\ log[i].e = "watcher" /\ log[i].id = 2
          /\ log[j].e = "dataChange" /\ log[j].key = "x" /\ log[j].newValue = Num(1)
    /\ heap[4].of["x"] = Num(1)

----------------------------------------------------------------------------
(* C30 *)

\* C30: a watcher is called only by the dispatch of a write to a key of the
\* data container, never by that of a write to a property of a container
\* in it
C30_WatcherOfTopLevelKey ==
    [][\A i \in (Len(log) + 1)..Len(log') :
          (i > 1 /\ log'[i].e = "watcher") => "container" \notin DOMAIN Top]_vars

----------------------------------------------------------------------------
(* C34 *)

\* C34: the renderer compile returns for a template is made of the tokens
\* of that template, and compile does without scanning only for a template
\* an earlier compile has stored in the cache
C34_RendererIsTokenized ==
    (log # <<>> /\ log[1].e \in {"compile", "render()"})
        => /\ log[1].scans = 0 => log[1].template \in DOMAIN cache
           /\ log[1].e = "compile" => log[1].renderer = tokens(log[1].template, 1)
           /\ log[1].e = "render()" => log[1].typeof = "string"

----------------------------------------------------------------------------
(* C32 *)

\* C32: a write of a value not === the stored one has stored it when the
\* dispatch begins and it stays stored; when a watcher or the beforeUpdate
\* hook throws, the phase ends there with the exception at the writer: no
\* watcher after it and no render run, the container holds the new value
\* and the render target the content it had
C32_StoredAndNotRolledBack ==
    /\ []((Writing /\ Distinct(log[1])) => data[log[1].key] = log[1].value)
    /\ []((Writing /\ Threw)
            => /\ Last(log).e = "throw" /\ Len(Of(log, "throw")) = 1
               /\ Idle /\ thrown
               /\ log[Len(log) - 1].e \in {"watcher", "beforeUpdate"}
               /\ Of(log, "render") = <<>>
               /\ \E n \in 0..Len(WatchersOf(log[1].key)) :
                     [i \in 1..Len(Of(log, "watcher")) |-> Of(log, "watcher")[i].id]
                       = SubSeq(WatchersOf(log[1].key), 1, n))
    /\ [][innerHTML' # innerHTML => Calls("render")]_vars

\* the first of two watchers of a has thrown: a holds the value written and
\* the render target shows another
C32_Witness ==
    /\ Writing /\ Threw /\ Idle
    /\ Len(Of(log, "watcher")) = 1 /\ Len(WatchersOf(log[1].key)) = 2
    /\ data[log[1].key] = log[1].value
    /\ Bound /\ innerHTML # Shown(data)

----------------------------------------------------------------------------
(* C33 *)

\* what a phase that writes value over stored for key k logs after its
\* header when it has run to its end
Cycle(k, value, stored) ==
    IF StrictEquals(stored, value) THEN <<>>
    ELSE <<[e |-> "dataChange", key |-> k, newValue |-> value, oldValue |-> stored]>>
         \o [i \in 1..Len(WatchersOf(k)) |->
               [e |-> "watcher", id |-> WatchersOf(k)[i], newValue |-> value,
                oldValue |-> stored]]
         \o (IF isFunction(options.beforeUpdate)
             THEN <<[e |-> "beforeUpdate", key |-> k]>> ELSE <<>>)
         \o (IF Bound THEN <<[e |-> "render", html |-> Shown(data)]>> ELSE <<>>)
         \o (IF isFunction(options.updated)
             THEN <<[e |-> "updated", key |-> k]>> ELSE <<>>)

\* C33: for a key the container holds, component.k = v, the same
\* assignment on the container $get() returns and $set(k, v) leave the same
\* state behind for the dispatch to start from, and each ends with the
\* value stored, the same watchers called in the same order with the same
\* arguments, the same hooks called and the same content rendered
C33_ThreeWritePaths ==
    /\ (Idle /\ ~destroyed)
         => \A k \in DOMAIN data : \A v \in Written :
              /\ Proxy(Context(<<>>, <<Write("write", k, v)>>), k, v)
                   = Setter(Context(<<>>, <<Write("write", k, v)>>), k, v)
              /\ SetKey(Context(<<>>, <<Write("write", k, v)>>), k, v)
                   = Setter(Context(<<>>, <<Write("write", k, v)>>), k, v)
    /\ (Idle /\ log # <<>> /\ log[1].e \in {"assign", "data", "$set"})
         => /\ data[log[1].key] = log[1].value
            /\ Tail(log) = Cycle(log[1].key, log[1].value, log[1].stored)
            /\ Bound => innerHTML = Shown(data)

\* $set(k, v) has found undefined stored for k, which is how it tells a
\* key to add, and has ended as an assignment does: both watchers called,
\* both hooks, one render
C33_Witness ==
    /\ OpenedBy("$set") /\ Idle /\ log[1].tracked
    /\ log[1].stored = Undefined /\ log[1].value # Undefined
    /\ Len(Of(log, "watcher")) = 2
    /\ Len(log) = 7

\* a render is at work: the constructor is at its first render, the
\* observer callback at its re-render, or utils.extend at a computed entry
Rendering ==
    /\ stack # <<>>
    /\ \/ Top.kind = "extend"
       \/ Top.kind = "constructor" /\ constructor[Top.pc] = "render"
       \/ Top.kind = "callback" /\ Top.pc = "render"

\* C31: a render, the first as a later one, leaves the data container and
\* every nested container as they are and does not invoke the change
\* callback, whatever the computed table is named after
C31_RenderModifiesNothing ==
    [][Rendering => (data' = data /\ heap' = heap /\ ~Calls("dataChange"))]_vars

====
